---- MODULE Spec2Model ----
(***************************************************************************)
(* alert-spooler: the Runner's work cycle (RunOnce) over the file ledger,  *)
(* the event ledger, the input directory and the syslog sender.            *)
(*                                                                         *)
(* One RunOnce is a sequence of steps of a single thread; the environment  *)
(* (an operator writing, replacing or removing input files, the calendar   *)
(* advancing, the replay start-time being set) acts between cycles.        *)
(* Every fallible call of the code (send, store open, store query, archive *)
(* transaction, file read, move, remove, the deadline) is a nondeterministic*)
(* choice between success and failure.  Store updates whose error result   *)
(* the code discards (`_ = r.db...Updates(...)`) are applied.              *)
(***************************************************************************)
EXTENDS Integers, Sequences, FiniteSets, TLC

\* ---------------------------------------------------------------------
\* Bounds
\* ---------------------------------------------------------------------
NumPaths == 1
MaxClock == 2
MaxRuns == 2
MaxWrites == 1
\* files of one batch (the specification SpecBatch)
BatchSize == 2
\* files the error directory holds at most (the specification SpecMove)
MaxMoved == 3

\* ---------------------------------------------------------------------
\* The input directory and file contents
\* ---------------------------------------------------------------------
\* The files cfg.Inputs[0].Glob ("general/*.warn") can match, in glob order.
\* cfg.InputGlobs is empty, as in every configuration of runner_test.go.
PathOf(i) == "general/f" \o ToString(i) \o ".warn"

\* the paths the pattern covers: those an operator writes to (1..NumPaths)
\* and those of a batch (1..BatchSize)
MaxPaths == IF BatchSize > NumPaths THEN BatchSize ELSE NumPaths

GlobOrder == [i \in 1..MaxPaths |-> PathOf(i)]

AllPaths == {PathOf(i) : i \in 1..MaxPaths}

Paths == {PathOf(i) : i \in 1..NumPaths}

BatchPaths == {PathOf(i) : i \in 1..BatchSize}

NoFile == "nofile"
\* "OBJ": one JSON object, "ARR": a JSON array of two objects,
\* "BAD": bytes that are not JSON.  A content stands for its SHA-256 digest.
Contents == {"OBJ", "ARR", "BAD"}

\* "OBJ@": the object of "OBJ" with another timestamp in its detail text;
\* other bytes, hence another digest, and the same normalized key text
ObjectContents == {"OBJ", "OBJ@"}

\* NormalizeText(extractKeyText(item)) of the content's first element
Normalized(c) == IF c = "OBJ@" THEN "OBJ" ELSE c

Decodable(c) == c # "BAD"

\* number of elements json.Unmarshal yields for the content (toEvents)
Elements(c) == IF c = "ARR" THEN 2 ELSE 1

\* filepath.Base
Base(p) == LET i == CHOOSE j \in 1..MaxPaths : PathOf(j) = p
           IN  "f" \o ToString(i) \o ".warn"

\* ---------------------------------------------------------------------
\* Time: the clock counts half months; a period key is a calendar month.
\* ---------------------------------------------------------------------
Times == 1..MaxClock
ZeroTime == 0

PeriodKey(t) == t \div 2

\* ---------------------------------------------------------------------
\* Store (store.go, models.go)
\* ---------------------------------------------------------------------
\* r.dbKey when no store is open (Close sets it to "")
NoKey == -1

\* r.dbKey with the legacy single store path ("static")
StaticKey == -2

EmptyStore == [files |-> << >>, events |-> << >>]

\* a file row that is written as fully sent whatever the sends returned
ProcessedFileMarkedSent(path, sha, allSent) ==
    [path |-> path, sha256 |-> sha, all_sent |-> TRUE, deleted |-> FALSE,
     deleted_at |-> ZeroTime, last_error |-> ""]

ProcessedFile(path, sha, allSent) ==
    [path |-> path, sha256 |-> sha, all_sent |-> allSent, deleted |-> FALSE,
     deleted_at |-> ZeroTime, last_error |-> ""]

\* an event as built by buildEvent (not yet sent, not yet stored)
SpoolEvent(path, sha, idx, now) ==
    [source_path |-> path, file_sha256 |-> sha, event_index |-> idx,
     alert_type |-> "general",
     alert_level |-> "warning",
     content_hash |-> "h-" \o Normalized(sha),
     cccc |-> "none",
     event_json |-> "json:" \o sha \o ":" \o ToString(idx),
     sent_syslog |-> FALSE, send_error |-> "", sent_at |-> ZeroTime,
     archived_at |-> now]

newErrorEvent(path, sha, now) ==
    [source_path |-> path, file_sha256 |-> sha, event_index |-> 0,
     alert_type |-> "general",
     alert_level |-> "unknown",
     content_hash |-> "",
     cccc |-> "",
     event_json |-> "{}",
     sent_syslog |-> FALSE, send_error |-> "decode/build error", sent_at |-> ZeroTime,
     archived_at |-> now]

toEvents(path, sha, now) ==
    [i \in 1..Elements(sha) |-> SpoolEvent(path, sha, i - 1, now)]

\* ---------------------------------------------------------------------
\* Text normalization (normalize.go).  A text is a sequence of characters.
\* A pattern is a list of alternatives tried in order; an alternative is a
\* sequence of atoms, an atom a character set repeated min..max times,
\* greedy (regexp's leftmost-first match).
\* ---------------------------------------------------------------------
Digits == {"0", "1", "2", "3", "4", "5", "6", "7", "8", "9"}

Spaces == {" ", "\t", "\n", "\r"}

\* \d{min,max}
D(min, max) == [set |-> Digits, min |-> min, max |-> max]

\* a literal character
L(c) == [set |-> {c}, min |-> 1, max |-> 1]

\* \d{4}<sep>\d{2}<sep>\d{2}
DateAtoms(sep) == << D(4, 4), L(sep), D(2, 2), L(sep), D(2, 2) >>

\* \d{2}:\d{2}:\d{2}
HMSAtoms == << D(2, 2), L(":"), D(2, 2), L(":"), D(2, 2) >>

\* \d{2}:\d{2}
HMAtoms == << D(2, 2), L(":"), D(2, 2) >>

\* \.\d{3,6}
FracAtoms == << L("."), D(3, 6) >>

timestampPatterns ==
    << << DateAtoms("-") \o << L(" ") >> \o HMSAtoms >>,
       << DateAtoms("-") \o << L("T") >> \o HMSAtoms >>,
       << DateAtoms("-") \o << L("T") >> \o HMAtoms >>,
       << DateAtoms("-") \o << L("T") >> \o HMSAtoms \o FracAtoms >>,
       << DateAtoms("-") \o << L(" ") >> \o HMSAtoms \o FracAtoms >>,
       << DateAtoms(".") \o << L("T") >> \o HMSAtoms \o FracAtoms,
          DateAtoms(".") \o << L("T") >> \o HMSAtoms >>,
       << DateAtoms("/") \o << L(" ") >> \o HMAtoms >>,
       << << D(4, 4), L("-"), D(1, 2), L("-"), D(1, 2), L(" "),
             D(1, 2), L(":"), D(1, 2), L(":"), D(1, 2) >> >> >>

\* the position after the match of `atoms` that starts at position i of s,
\* 0 when there is none
RECURSIVE MatchEnd(_, _, _)
RECURSIVE TryCount(_, _, _, _, _)
MatchEnd(atoms, s, i) ==
    IF atoms = << >> THEN i
    ELSE TryCount(Head(atoms), Tail(atoms), s, i, Head(atoms).max)

TryCount(a, rest, s, i, k) ==
    IF k < a.min THEN 0
    ELSE LET fits == /\ i + k - 1 <= Len(s)
                     /\ \A j \in i..(i + k - 1) : s[j] \in a.set
             e == IF fits THEN MatchEnd(rest, s, i + k) ELSE 0
         IN  IF e # 0 THEN e ELSE TryCount(a, rest, s, i, k - 1)

RECURSIVE FirstMatchEnd(_, _, _)
FirstMatchEnd(alts, s, i) ==
    IF alts = << >> THEN 0
    ELSE LET e == MatchEnd(Head(alts), s, i)
         IN  IF e # 0 THEN e ELSE FirstMatchEnd(Tail(alts), s, i)

\* re.ReplaceAllString(s, ""), from position i on
RECURSIVE ReplaceAllString(_, _, _)
ReplaceAllString(re, s, i) ==
    IF i > Len(s) THEN << >>
    ELSE LET e == FirstMatchEnd(re, s, i)
         IN  IF e > i THEN ReplaceAllString(re, s, e)
             ELSE << s[i] >> \o ReplaceAllString(re, s, i + 1)

\* for _, re := range patterns { s = re.ReplaceAllString(s, "") }
RECURSIVE StripPatterns(_, _)
StripPatterns(patterns, s) ==
    IF patterns = << >> THEN s
    ELSE StripPatterns(Tail(patterns), ReplaceAllString(Head(patterns), s, 1))

\* strings.Join(strings.Fields(strings.TrimSpace(s)), " "), from position i on
RECURSIVE JoinFields(_, _)
JoinFields(s, i) ==
    IF i > Len(s) THEN << >>
    ELSE IF s[i] \notin Spaces THEN << s[i] >> \o JoinFields(s, i + 1)
    ELSE IF /\ i > 1 /\ s[i - 1] \notin Spaces
            /\ \E j \in (i + 1)..Len(s) : s[j] \notin Spaces
    THEN << " " >> \o JoinFields(s, i + 1)
    ELSE JoinFields(s, i + 1)

NormalizeText(input) == JoinFields(StripPatterns(timestampPatterns, input), 1)

\* the length of a hexadecimal SHA-256 digest
FullHexLen == 64

\* the digest is a value that stands for the hashed text; of it the first
\* hexLen characters, or all of them
HashNormalized(normalized, hexLen) ==
    [sha256 |-> normalized,
     len |-> IF hexLen <= 0 \/ hexLen >= FullHexLen THEN FullHexLen ELSE hexLen]

\* ---------------------------------------------------------------------
\* Tagging (cccc.go, buildEvent)
\* ---------------------------------------------------------------------
LowerLetters ==
    << "a", "b", "c", "d", "e", "f", "g", "h", "i", "j", "k", "l", "m",
       "n", "o", "p", "q", "r", "s", "t", "u", "v", "w", "x", "y", "z" >>

UpperLetters ==
    << "A", "B", "C", "D", "E", "F", "G", "H", "I", "J", "K", "L", "M",
       "N", "O", "P", "Q", "R", "S", "T", "U", "V", "W", "X", "Y", "Z" >>

\* strings.ToUpper
ToUpper(s) ==
    [i \in DOMAIN s |->
        IF \E j \in DOMAIN LowerLetters : LowerLetters[j] = s[i]
        THEN UpperLetters[CHOOSE j \in DOMAIN LowerLetters : LowerLetters[j] = s[i]]
        ELSE s[i]]

\* strings.TrimSpace
TrimSpace(s) ==
    LET inner == {i \in DOMAIN s : s[i] \notin Spaces}
    IN  IF inner = {} THEN << >>
        ELSE SubSeq(s, CHOOSE i \in inner : \A j \in inner : i <= j,
                       CHOOSE i \in inner : \A j \in inner : i >= j)

\* strings.Contains
Contains(s, sub) ==
    \E i \in 0..(Len(s) - Len(sub)) : SubSeq(s, i + 1, i + Len(sub)) = sub

NoneTag == << "n", "o", "n", "e" >>

\* the loop of ExtractCCCC over the codes, `upper` the upper-cased text
RECURSIVE FirstCode(_, _)
FirstCode(upper, codes) ==
    IF codes = << >> THEN NoneTag
    ELSE LET c == ToUpper(TrimSpace(Head(codes)))
         IN  IF c = << >> THEN FirstCode(upper, Tail(codes))
             ELSE IF Contains(upper, c) THEN c
             ELSE FirstCode(upper, Tail(codes))

ExtractCCCC(text, codes) ==
    IF Len(codes) = 0 THEN NoneTag ELSE FirstCode(ToUpper(text), codes)

\* a tagging that is switched by the enabled flag
EventTagByFlag(c, keyText) ==
    IF c.CCCCEnabled /\ Len(c.CCCCCodes) > 0 THEN ExtractCCCC(keyText, c.CCCCCodes)
    ELSE NoneTag

\* buildEvent: the tag of an event with the given key text
EventTag(c, keyText) ==
    IF Len(c.CCCCCodes) > 0 THEN ExtractCCCC(keyText, c.CCCCCodes) ELSE NoneTag

\* ---------------------------------------------------------------------
\* Alert level (NormalizeAlertLevel, ExtractAlertLevel).  A decoded JSON
\* item is a record: whether it is an object, and its fields; a field value
\* is a string, a number or null.
\* ---------------------------------------------------------------------
\* strings.ToLower
ToLower(s) ==
    [i \in DOMAIN s |->
        IF \E j \in DOMAIN UpperLetters : UpperLetters[j] = s[i]
        THEN LowerLetters[CHOOSE j \in DOMAIN UpperLetters : UpperLetters[j] = s[i]]
        ELSE s[i]]

DigitChars == << "0", "1", "2", "3", "4", "5", "6", "7", "8", "9" >>

\* fmt.Sprint of a decoded JSON value
Sprint(v) ==
    CASE v.t = "str" -> v.s
      [] v.t = "num" -> << DigitChars[v.n + 1] >>
      [] v.t = "null" -> << "<", "n", "i", "l", ">" >>

CriticalWords ==
    {<< "e", "r", "r", "o", "r" >>, << "c", "r", "i", "t", "i", "c", "a", "l" >>,
     << "2" >>, << "3" >>, << "4" >>, << "5" >>}

WarningWords == {<< "w", "a", "r", "n" >>, << "w", "a", "r", "n", "i", "n", "g" >>, << "1" >>}

NormalizeAlertLevel(v) ==
    LET t == ToLower(TrimSpace(v))
    IN  IF t \in CriticalWords THEN "critical"
        ELSE IF t \in WarningWords THEN "warning"
        ELSE "unknown"

\* filepath.Ext: from the last dot of the last path element on
Ext(path) ==
    LET dots == {i \in DOMAIN path :
                    path[i] = "." /\ \A j \in i..Len(path) : path[j] # "/"}
    IN  IF dots = {} THEN << >>
        ELSE SubSeq(path, CHOOSE i \in dots : \A j \in dots : i >= j, Len(path))

LevelKeys == << "status", "level", "severity" >>

LevelOfExt(sourcePath) ==
    LET ext == ToLower(Ext(sourcePath))
    IN  IF ext = << ".", "w", "a", "r", "n" >> THEN "warning"
        ELSE IF ext = << ".", "a", "l", "a", "r", "m" >> THEN "critical"
        ELSE "unknown"

\* the loop over status, level, severity
RECURSIVE LevelOfKeys(_, _, _)
LevelOfKeys(keys, m, sourcePath) ==
    IF keys = << >> THEN LevelOfExt(sourcePath)
    ELSE IF Head(keys) \in DOMAIN m THEN NormalizeAlertLevel(Sprint(m[Head(keys)]))
    ELSE LevelOfKeys(Tail(keys), m, sourcePath)

\* a level that falls back to the extension when the field's value is not
\* a known word
ExtractAlertLevelFallsBack(item, sourcePath) ==
    LET l == IF item.isMap THEN LevelOfKeys(LevelKeys, item.fields, sourcePath)
             ELSE LevelOfExt(sourcePath)
    IN  IF l = "unknown" THEN LevelOfExt(sourcePath) ELSE l

ExtractAlertLevel(item, sourcePath) ==
    IF item.isMap THEN LevelOfKeys(LevelKeys, item.fields, sourcePath)
    ELSE LevelOfExt(sourcePath)

\* ---------------------------------------------------------------------
\* Structured data (buildStructuredData, escapeSDParam)
\* A value is a sequence of text chunks; the characters escapeSDParam
\* rewrites are chunks of their own.
\* ---------------------------------------------------------------------
Txt(s) == IF s = "" THEN << >> ELSE << s >>

WhiteChunks == {"", " ", "\n", "\r", "\t"}

\* strings.TrimSpace(v) == ""
Blank(v) == \A i \in DOMAIN v : v[i] \in WhiteChunks

escapeChunk(c) ==
    CASE c = "\\" -> "\\\\"
      [] c = "\"" -> "\\\""
      [] c = "]" -> "\\]"
      [] c = "\n" -> " "
      [] c = "\r" -> " "
      [] OTHER -> c

escapeSDParam(v) == [i \in DOMAIN v |-> escapeChunk(v[i])]

preferredOrder ==
    << "job", "service", "env", "site", "cluster", "filename", "alert_type",
       "alert_level", "hash", "cccc", "replay", "deadman" >>

\* the keys outside preferredOrder this model passes, in sort.Strings order
SortedExtraKeys == << "aaa", "app", "zone", "zzz" >>

RECURSIVE EmitParams(_, _)
EmitParams(keys, kv) ==
    IF keys = << >> THEN << >>
    ELSE LET k == Head(keys)
             rest == EmitParams(Tail(keys), kv)
         IN  IF k \in DOMAIN kv /\ ~Blank(kv[k])
             THEN << [k |-> k, v |-> escapeSDParam(kv[k])] >> \o rest
             ELSE rest

\* an encoder that also emits the keys whose value is empty or blank
buildStructuredDataKeepsBlank(sdID, kv) ==
    [id |-> IF sdID = "" THEN "cndp" ELSE sdID,
     params |-> LET all == preferredOrder \o SortedExtraKeys
                IN  [i \in 1..Len(SelectSeq(all, LAMBDA k : k \in DOMAIN kv)) |->
                        LET k == SelectSeq(all, LAMBDA x : x \in DOMAIN kv)[i]
                        IN  [k |-> k, v |-> escapeSDParam(kv[k])]]]

buildStructuredData(sdID, kv) ==
    [id |-> IF sdID = "" THEN "cndp" ELSE sdID,
     params |-> EmitParams(preferredOrder, kv) \o EmitParams(SortedExtraKeys, kv)]

SDKeys(sd) == {sd.params[i].k : i \in DOMAIN sd.params}

SDValue(sd, key) ==
    LET i == CHOOSE j \in DOMAIN sd.params : sd.params[j].k = key
    IN  sd.params[i].v

\* ---------------------------------------------------------------------
\* Configuration (RunnerConfig after NewRunner)
\* ---------------------------------------------------------------------
JobLabel == "mhdbs"
DBFolder == "db"
ErrorDir == "errors"
Token == "spooler-run"

EventLabels(c, ev) ==
    [job |-> Txt(c.JobLabel), service |-> Txt(c.ServiceLabel),
     env |-> Txt(""), site |-> Txt(""), cluster |-> Txt(""),
     filename |-> Txt(Base(ev.source_path)),
     alert_type |-> Txt(ev.alert_type),
     alert_level |-> IF Blank(Txt(ev.alert_level)) THEN Txt("unknown")
                     ELSE Txt(ev.alert_level),
     hash |-> Txt(ev.content_hash),
     cccc |-> Txt(ev.cccc)]

\* replay sends built with the labels of an ordinary send
ReplayLabelsUntagged(c, ev) == EventLabels(c, ev)

ReplayLabels(c, ev) ==
    [k \in DOMAIN EventLabels(c, ev) \cup {"replay"} |->
        IF k = "replay" THEN Txt("true") ELSE EventLabels(c, ev)[k]]

DeadmanLabels(c) ==
    [job |-> Txt(c.JobLabel), service |-> Txt(c.ServiceLabel),
     env |-> Txt(""), site |-> Txt(""), cluster |-> Txt(""),
     filename |-> Txt("-"), alert_type |-> Txt("deadman"),
     alert_level |-> Txt("unknown"), hash |-> Txt("deadman"),
     cccc |-> Txt("none"), deadman |-> Txt(c.DeadmanToken)]

\* NewRunner: defaults applied to the caller's configuration
NewRunnerCfg(c) ==
    [c EXCEPT !.ServiceLabel = IF c.ServiceLabel = "" THEN "alerts" ELSE c.ServiceLabel,
              !.DeleteAfterSend = IF ~c.DeleteAfterSend THEN TRUE ELSE c.DeleteAfterSend]

\* ---------------------------------------------------------------------
\* Per-cycle counters (runStats) and the sender's call log
\* ---------------------------------------------------------------------
ZeroStats ==
    [FilesIngested |-> 0, EventsNew |-> 0, EventsSentOK |-> 0, EventsSentErr |-> 0,
     EventsReplayOK |-> 0, EventsReplayErr |-> 0, FilesDeleted |-> 0]

NoStatus == ""

\* one SendRFC5424Timeout call: who made it, the structured data, the JSON
\* payload (source, event_index, event; for the heartbeat status, error and
\* the counters), and the result the sender returned (the heartbeat's result
\* is discarded by RunOnce and recorded as TRUE)
EventCall(by, sd, ev, ok) ==
    [by |-> by, sd |-> sd, source |-> ev.source_path, event_index |-> ev.event_index,
     event |-> ev.event_json, status |-> NoStatus, error |-> "", stats |-> ZeroStats,
     ok |-> ok]

DeadmanCall(sd, status, errMsg, st) ==
    [by |-> "sendDeadman", sd |-> sd, source |-> "", event_index |-> 0,
     event |-> "", status |-> status, error |-> errMsg, stats |-> st, ok |-> TRUE]

\* ---------------------------------------------------------------------
\* State
\* ---------------------------------------------------------------------
VARIABLES
    fs,        \* input directory: path -> content, or NoFile
    errdir,    \* error directory: file name -> content
    dbs,       \* the store files of DBFolder: period key -> store
    dbKey,     \* Runner.dbKey: the period of the open store, or NoKey
    clock,     \* time.Now()
    cfg,       \* Runner.cfg
    pc,        \* position of RunOnce; "idle" between cycles
    todo,      \* paths still to ingest in the current loop of RunOnce
    pending,   \* resendPending: the queried unsent events not yet retried
    fq,        \* finalizeFiles: the queried file rows not yet examined
    rdbs,      \* replayFrom: store files not yet opened
    revs,      \* replayFrom: events of the open store not yet resent
    runErr,    \* RunOnce's runErr, read by the deferred heartbeat
    ret,       \* the value RunOnce returns ("" is nil)
    stats,     \* runStats of the cycle
    calls,     \* the sends of the current cycle, in order, with their results
    faults,    \* the file and store operations that failed in the current cycle
    runs,      \* RunOnce invocations so far
    writes,    \* operator writes to the input directory so far
    given,     \* the RunnerConfig the caller handed to NewRunner
    arg,       \* the arguments of a function applied on its own
    res        \* the value that function returned

vars == << fs, errdir, dbs, dbKey, clock, cfg, pc, todo, pending, fq, rdbs, revs,
           runErr, ret, stats, calls, faults, runs, writes, given, arg, res >>

\* what one ingestFile call reads and writes
World == [fs |-> fs, errdir |-> errdir, db |-> dbs[dbKey], stats |-> stats,
          calls |-> calls, faults |-> faults, err |-> ""]

\* an operation on the file at `path` failed: what failed, for which file
Fault(w, kind, path) == [w EXCEPT !.faults = @ \cup {<< kind, path >>}]

\* ids are 1-based positions: rows are never deleted
FileIds(db, path, sha) ==
    {i \in DOMAIN db.files : db.files[i].path = path /\ db.files[i].sha256 = sha}

EventIds(db, path, sha) ==
    {i \in DOMAIN db.events :
        db.events[i].source_path = path /\ db.events[i].file_sha256 = sha}

\* r.db.Model(&ProcessedFile{}).Where("path = ? AND sha256 = ?").Updates(upd)
UpdateFilesByKey(db, path, sha, upd) ==
    [db EXCEPT !.files =
        [i \in DOMAIN db.files |->
            IF i \in FileIds(db, path, sha)
            THEN [f \in DOMAIN db.files[i] |->
                     IF f \in DOMAIN upd THEN upd[f] ELSE db.files[i][f]]
            ELSE db.files[i]]]

\* r.db.Model(&ProcessedFile{}).Where("id = ?").Updates(upd)
UpdateFileById(db, id, upd) ==
    [db EXCEPT !.files[id] =
        [f \in DOMAIN db.files[id] |->
            IF f \in DOMAIN upd THEN upd[f] ELSE db.files[id][f]]]

\* r.db.Model(&SpoolEvent{}).Where("id = ?").Updates(upd)
UpdateEventById(db, id, upd) ==
    [db EXCEPT !.events[id] =
        [f \in DOMAIN db.events[id] |->
            IF f \in DOMAIN upd THEN upd[f] ELSE db.events[id][f]]]

\* ---------------------------------------------------------------------
\* MoveFileToDir.  outcome: "ok"; "fail" (nothing moved); "copied" (the
\* copy fallback wrote the destination but removing the source failed).
\* ---------------------------------------------------------------------
\* a destination name that is the base name, taken or not
DstNameNoSuffix(ed, src) == << Base(src), 0 >>

DstName(ed, src) ==
    IF << Base(src), 0 >> \in DOMAIN ed
    THEN << Base(src), Cardinality(DOMAIN ed) >>
    ELSE << Base(src), 0 >>

MoveFileToDir(w, src, dstDir, outcome) ==
    IF Blank(Txt(dstDir)) THEN [w EXCEPT !.err = "dstDir is empty"]
    ELSE IF w.fs[src] = NoFile \/ outcome = "fail"
    THEN [Fault(w, "move", src) EXCEPT !.err = "move failed"]
    ELSE LET dst == DstName(w.errdir, src)
             ed == [n \in DOMAIN w.errdir \cup {dst} |->
                      IF n = dst THEN w.fs[src] ELSE w.errdir[n]]
         IN  IF outcome = "copied"
             THEN [Fault(w, "move", src) EXCEPT !.errdir = ed, !.err = "move failed"]
             ELSE [w EXCEPT !.errdir = ed, !.fs[src] = NoFile, !.err = ""]

\* ---------------------------------------------------------------------
\* tryDeleteProcessedFile
\* ---------------------------------------------------------------------
tryDeleteProcessedFile(w, path, sha, now, rmOk, updOk) ==
    IF w.fs[path] = NoFile \/ ~rmOk
    THEN [Fault(w, "remove", path) EXCEPT
                   !.db = UpdateFilesByKey(w.db, path, sha,
                                [last_error |-> "delete failed"]),
                   !.err = "remove failed"]
    ELSE IF updOk
    THEN [w EXCEPT !.fs[path] = NoFile,
                   !.db = UpdateFilesByKey(w.db, path, sha,
                                [deleted |-> TRUE, deleted_at |-> now, last_error |-> ""]),
                   !.err = ""]
    ELSE [Fault(w, "update", path) EXCEPT !.fs[path] = NoFile, !.err = "update failed"]

\* ---------------------------------------------------------------------
\* archiveAndMarkFile
\* ---------------------------------------------------------------------
MoveOutcomes == {"ok", "fail", "copied"}

\* the outcomes of the fallible calls inside one ingestFile
IngestChoices ==
    [read : BOOLEAN, query : BOOLEAN, tx : BOOLEAN, rm : BOOLEAN, upd : BOOLEAN,
     mv : MoveOutcomes, oks : [1..2 -> BOOLEAN]]

\* a send loop that counts an event as new only when its send succeeds
RECURSIVE SendLoopCountsSent(_, _, _, _, _, _)
SendLoopCountsSent(w, c, events, oks, now, i) ==
    IF i > Len(events) THEN [w |-> w, events |-> events]
    ELSE LET ev == events[i]
             sd == buildStructuredData("cndp", EventLabels(c, ev))
             w1 == [w EXCEPT
                      !.calls = Append(@, EventCall("archiveAndMarkFile", sd, ev, oks[i])),
                      !.stats.EventsNew = IF oks[i] THEN @ + 1 ELSE @,
                      !.stats.EventsSentOK = IF oks[i] THEN @ + 1 ELSE @,
                      !.stats.EventsSentErr = IF oks[i] THEN @ ELSE @ + 1]
             ev1 == IF oks[i]
                    THEN [ev EXCEPT !.sent_syslog = TRUE, !.sent_at = now]
                    ELSE [ev EXCEPT !.sent_syslog = FALSE, !.send_error = "send failure"]
         IN  SendLoopCountsSent(w1, c, [events EXCEPT ![i] = ev1], oks, now, i + 1)

\* the send loop: one SendRFC5424Timeout per built event, result recorded on
\* the event (a successful send leaves SendError as it was)
RECURSIVE SendLoop(_, _, _, _, _, _)
SendLoop(w, c, events, oks, now, i) ==
    IF i > Len(events) THEN [w |-> w, events |-> events]
    ELSE LET ev == events[i]
             sd == buildStructuredData("cndp", EventLabels(c, ev))
             w1 == [w EXCEPT
                      !.calls = Append(@, EventCall("archiveAndMarkFile", sd, ev, oks[i])),
                      !.stats.EventsNew = @ + 1,
                      !.stats.EventsSentOK = IF oks[i] THEN @ + 1 ELSE @,
                      !.stats.EventsSentErr = IF oks[i] THEN @ ELSE @ + 1]
             ev1 == IF oks[i]
                    THEN [ev EXCEPT !.sent_syslog = TRUE, !.sent_at = now]
                    ELSE [ev EXCEPT !.sent_syslog = FALSE, !.send_error = "send failure"]
         IN  SendLoop(w1, c, [events EXCEPT ![i] = ev1], oks, now, i + 1)

\* an archive that keeps one file row per path: the rows of an earlier
\* content of the path are replaced by the rows of the new content
ArchiveTxReplacesPath(db, events, pf) ==
    [db EXCEPT
        !.events = SelectSeq(@, LAMBDA e : e.source_path # pf.path) \o events,
        !.files = Append(SelectSeq(@, LAMBDA f : f.path # pf.path), pf)]

\* the archive transaction: all events and the file row, or nothing
\* an archive that writes the events outside the transaction of the file row
ArchiveTxEventsOnly(db, events, pf) ==
    [db EXCEPT !.events = @ \o events]

ArchiveTx(db, events, pf) ==
    [db EXCEPT !.events = @ \o events, !.files = Append(@, pf)]

archiveAndMarkFile(w, c, path, sha, events, errorDir, moveToErrorDir, now, ch) ==
    LET s == SendLoop(w, c, events, ch.oks, now, 1)
        allSent == \A i \in DOMAIN s.events : s.events[i].sent_syslog
        w1 == s.w
        toErrorDir == moveToErrorDir /\ ~Blank(Txt(errorDir))
    IN  IF ~ch.tx
        THEN IF toErrorDir
             THEN [MoveFileToDir(Fault(w1, "tx", path), path, errorDir, ch.mv)
                      EXCEPT !.err = "transaction failed"]
             ELSE [Fault(w1, "tx", path) EXCEPT !.err = "transaction failed"]
        ELSE LET w2 == [w1 EXCEPT
                          !.db = ArchiveTx(@, s.events, ProcessedFile(path, sha, allSent)),
                          !.stats.FilesIngested = @ + 1]
             IN  IF toErrorDir
                 THEN LET m == MoveFileToDir(w2, path, errorDir, ch.mv)
                      IN  IF m.err # ""
                          THEN [m EXCEPT !.db = UpdateFilesByKey(@, path, sha,
                                    [last_error |-> "move to error_dir failed"])]
                          ELSE [m EXCEPT !.db = UpdateFilesByKey(@, path, sha,
                                    [deleted |-> TRUE, deleted_at |-> now,
                                     last_error |-> "moved to error_dir"]),
                                         !.stats.FilesDeleted = @ + 1]
                 ELSE IF c.DeleteAfterSend /\ allSent
                 THEN LET d == tryDeleteProcessedFile(w2, path, sha, now, ch.rm, ch.upd)
                      IN  IF d.err # "" THEN d
                          ELSE [d EXCEPT !.stats.FilesDeleted = @ + 1]
                 ELSE w2

\* a check that takes a file for processed only once all its events are sent
isAlreadyProcessedAllSent(db, path, sha) ==
    \E i \in FileIds(db, path, sha) : db.files[i].all_sent

\* r.isAlreadyProcessed: a file row exists for (path, digest) in the open store
\* a check that takes a file for processed when the event ledger already
\* holds an event with its fingerprint
isAlreadyProcessedByHash(db, path, sha) ==
    \E i \in DOMAIN db.events : db.events[i].content_hash = "h-" \o Normalized(sha)

isAlreadyProcessed(db, path, sha) == FileIds(db, path, sha) # {}

\* ---------------------------------------------------------------------
\* ingestFile
\* ---------------------------------------------------------------------
\* an ingestFile that gives up on a file that is not JSON
ingestFileDropsBad(w, c, path, errorDir, now, ch) ==
    IF w.fs[path] = NoFile THEN [w EXCEPT !.err = "stat failed"]
    ELSE IF ~ch.read
    THEN IF ~Blank(Txt(errorDir))
         THEN [MoveFileToDir(Fault(w, "read", path), path, errorDir, ch.mv)
                  EXCEPT !.err = "read failed"]
         ELSE [Fault(w, "read", path) EXCEPT !.err = "read failed"]
    ELSE IF ~ch.query THEN [Fault(w, "query", path) EXCEPT !.err = "query failed"]
    ELSE IF isAlreadyProcessed(w.db, path, w.fs[path]) THEN w
    ELSE IF ~Decodable(w.fs[path]) THEN [w EXCEPT !.err = "decode failed"]
    ELSE archiveAndMarkFile(w, c, path, w.fs[path],
             toEvents(path, w.fs[path], now), "", FALSE, now, ch)

ingestFile(w, c, path, errorDir, now, ch) ==
    IF w.fs[path] = NoFile THEN [w EXCEPT !.err = "stat failed"]
    ELSE IF ~ch.read
    THEN IF ~Blank(Txt(errorDir))
         THEN [MoveFileToDir(Fault(w, "read", path), path, errorDir, ch.mv)
                  EXCEPT !.err = "read failed"]
         ELSE [Fault(w, "read", path) EXCEPT !.err = "read failed"]
    ELSE IF ~ch.query THEN [Fault(w, "query", path) EXCEPT !.err = "query failed"]
    ELSE IF isAlreadyProcessed(w.db, path, w.fs[path]) THEN w
    ELSE IF ~Decodable(w.fs[path])
    THEN archiveAndMarkFile(w, c, path, w.fs[path],
             << newErrorEvent(path, w.fs[path], now) >>, errorDir, TRUE, now, ch)
    ELSE archiveAndMarkFile(w, c, path, w.fs[path],
             toEvents(path, w.fs[path], now), "", FALSE, now, ch)

\* The outcome combinations that differ in a call ingestFile actually makes
\* for this file: the outcome of a call that is not made is fixed.
IngestChoicesAt(w, path, errorDir) ==
    {ch \in IngestChoices :
        LET c == w.fs[path]
            reads == c # NoFile
            queries == reads /\ ch.read
            archives == queries /\ ch.query /\ ~isAlreadyProcessed(w.db, path, c)
            sends == IF ~archives THEN 0 ELSE IF Decodable(c) THEN Elements(c) ELSE 1
            allSent == \A i \in 1..sends : ch.oks[i]
            toErrorDir == archives /\ ~Decodable(c) /\ ~Blank(Txt(errorDir))
            moves == (reads /\ ~ch.read /\ ~Blank(Txt(errorDir))) \/ toErrorDir
            removes == archives /\ ch.tx /\ ~toErrorDir /\ allSent
        IN  /\ (~reads => ch.read)
            /\ (~queries => ch.query)
            /\ (~archives => ch.tx)
            /\ \A i \in 1..2 : (i > sends => ch.oks[i])
            /\ (~moves => ch.mv = "ok")
            /\ (~removes => ch.rm)
            /\ (~(removes /\ ch.rm) => ch.upd)}

\* ---------------------------------------------------------------------
\* resendPending (one pending event), finalizeFiles (one file row),
\* replayFrom (one event), sendDeadman
\* ---------------------------------------------------------------------
\* r.db.Where("sent_syslog = ?", false).Find(&pending)
\* a query that selects every event row, sent or not
PendingQueryAll(db) ==
    [i \in DOMAIN db.events |-> [id |-> i, ev |-> db.events[i]]]

PendingQuery(db) ==
    SelectSeq([i \in DOMAIN db.events |-> [id |-> i, ev |-> db.events[i]]],
              LAMBDA r : ~r.ev.sent_syslog)

\* a resend that stamps sent_at on every attempt, failed ones included
resendOneStampsAttempt(w, c, id, ev, now, ok) ==
    LET sd == buildStructuredData("cndp", EventLabels(c, ev))
        w1 == [w EXCEPT !.calls = Append(@, EventCall("resendPending", sd, ev, ok))]
    IN  IF ~ok
        THEN [w1 EXCEPT !.db = UpdateEventById(@, id,
                                   [send_error |-> "send failure", sent_at |-> now]),
                        !.stats.EventsSentErr = @ + 1]
        ELSE [w1 EXCEPT !.db = UpdateEventById(@, id,
                                   [sent_syslog |-> TRUE, send_error |-> "", sent_at |-> now]),
                        !.stats.EventsSentOK = @ + 1]

resendOne(w, c, id, ev, now, ok) ==
    LET sd == buildStructuredData("cndp", EventLabels(c, ev))
        w1 == [w EXCEPT !.calls = Append(@, EventCall("resendPending", sd, ev, ok))]
    IN  IF ~ok
        THEN [w1 EXCEPT !.db = UpdateEventById(@, id, [send_error |-> "send failure"]),
                        !.stats.EventsSentErr = @ + 1]
        ELSE [w1 EXCEPT !.db = UpdateEventById(@, id,
                                   [sent_syslog |-> TRUE, send_error |-> "", sent_at |-> now]),
                        !.stats.EventsSentOK = @ + 1]

\* r.db.Where("all_sent = ? OR deleted = ?", false, false).Find(&pfs)
\* a query that leaves out the rows that are all_sent and not yet deleted
FinalizeQueryUnsentOnly(db) ==
    SelectSeq([i \in DOMAIN db.files |-> [id |-> i, pf |-> db.files[i]]],
              LAMBDA r : ~r.pf.all_sent)

FinalizeQuery(db) ==
    SelectSeq([i \in DOMAIN db.files |-> [id |-> i, pf |-> db.files[i]]],
              LAMBDA r : ~r.pf.all_sent \/ ~r.pf.deleted)

FinalizeChoices == [total : BOOLEAN, sent : BOOLEAN, rm : BOOLEAN, upd : BOOLEAN]

\* finalize that marks all_sent and leaves the file where it is
finalizeOneNoRemove(w, c, id, pf, now, ch) ==
    LET evs == EventIds(w.db, pf.path, pf.sha256)
    IN  IF evs # {} /\ (\A i \in evs : w.db.events[i].sent_syslog) /\ ~pf.all_sent
        THEN [w EXCEPT !.db = UpdateFileById(@, id, [all_sent |-> TRUE, last_error |-> ""])]
        ELSE w

finalizeOne(w, c, id, pf, now, ch) ==
    LET evs == EventIds(w.db, pf.path, pf.sha256)
        total == Cardinality(evs)
        sent == Cardinality({i \in evs : w.db.events[i].sent_syslog})
        allSent == sent = total
        w1 == IF allSent /\ ~pf.all_sent
              THEN [w EXCEPT !.db = UpdateFileById(@, id,
                                       [all_sent |-> TRUE, last_error |-> ""])]
              ELSE w
    IN  IF ~ch.total THEN Fault(w, "count", pf.path)
        ELSE IF total = 0 THEN w
        ELSE IF ~ch.sent THEN Fault(w, "count", pf.path)
        ELSE IF c.DeleteAfterSend /\ allSent /\ ~pf.deleted
        THEN IF w1.fs[pf.path] = NoFile
             THEN [w1 EXCEPT !.db = UpdateFileById(@, id,
                      [deleted |-> TRUE, deleted_at |-> now, last_error |-> "file missing"])]
             ELSE LET d == tryDeleteProcessedFile(w1, pf.path, pf.sha256, now, ch.rm, ch.upd)
                  IN  IF d.err = "" THEN [d EXCEPT !.stats.FilesDeleted = @ + 1]
                      ELSE [d EXCEPT !.err = ""]
        ELSE w1

RECURSIVE SortedKeys(_)
SortedKeys(S) ==
    IF S = {} THEN << >>
    ELSE LET m == CHOOSE x \in S : \A y \in S : x <= y
         IN  << m >> \o SortedKeys(S \ {m})

\* the store files <prefix><YYYYMM>.db with period in [period(from), period(to)]
listMonthlyDBs(d, from, to) ==
    SortedKeys({k \in DOMAIN d : k >= PeriodKey(from) /\ k <= PeriodKey(to)})

\* db.Where("archived_at >= ?", from).Order("id asc").Find(&events)
\* a query that leaves out the events already sent
ReplayQueryUnsent(db, from) ==
    SelectSeq(db.events, LAMBDA ev : ev.archived_at >= from /\ ~ev.sent_syslog)

ReplayQuery(db, from) ==
    SelectSeq(db.events, LAMBDA ev : ev.archived_at >= from)

\* one replayed event: a send tagged replay="true", the counters, no store write
\* a replay that records the result on the rows of the resent event
replayOneMarksSent(w, c, ev, ok) ==
    LET sd == buildStructuredData("cndp", ReplayLabels(c, ev))
    IN  [w EXCEPT !.calls = Append(@, EventCall("replayFrom", sd, ev, ok)),
                  !.stats.EventsReplayOK = IF ok THEN @ + 1 ELSE @,
                  !.stats.EventsReplayErr = IF ok THEN @ ELSE @ + 1,
                  !.db.events = [i \in DOMAIN @ |->
                                    IF ok /\ @[i].event_json = ev.event_json
                                          /\ @[i].source_path = ev.source_path
                                    THEN [@[i] EXCEPT !.sent_syslog = TRUE]
                                    ELSE @[i]]]

replayOne(w, c, ev, ok) ==
    LET sd == buildStructuredData("cndp", ReplayLabels(c, ev))
    IN  [w EXCEPT !.calls = Append(@, EventCall("replayFrom", sd, ev, ok)),
                  !.stats.EventsReplayOK = IF ok THEN @ + 1 ELSE @,
                  !.stats.EventsReplayErr = IF ok THEN @ ELSE @ + 1]

\* the deferred closure of RunOnce: whether the heartbeat is sent
DeadmanEnabled(c) == ~Blank(Txt(c.DeadmanToken))

\* a heartbeat that reports "ok" whatever RunOnce returns
DeadmanStatusAlwaysOK(err) == "ok"

DeadmanStatus(err) == IF err # "" THEN "error" ELSE "ok"

sendDeadman(c, st, err) ==
    DeadmanCall(buildStructuredData("cndp", DeadmanLabels(c)),
                DeadmanStatus(err), err, st)

\* ---------------------------------------------------------------------
\* Initial state: a Runner just built by NewRunner (store of the current
\* period open and empty), any files in the input directory
\* ---------------------------------------------------------------------
\* the configurations a caller hands to NewRunner
Configs ==
    {[JobLabel |-> JobLabel, ServiceLabel |-> "", DeleteAfterSend |-> d,
      Timeout |-> t, DeadmanToken |-> tok, ReplayFrom |-> ZeroTime,
      ErrorDir |-> e, DBFolder |-> DBFolder] :
        d \in BOOLEAN, t \in BOOLEAN, tok \in {"", Token}, e \in {"", ErrorDir}}

\* the same with the legacy single store path: DBFolder empty, DBPath set
StaticConfigs == {[c EXCEPT !.DBFolder = ""] : c \in Configs}

\* `arg` and `res` while no function is applied on its own
NoArg == [fn |-> "none"]

Init ==
    /\ fs \in {d \in [AllPaths -> Contents \cup {NoFile}] :
                   \A p \in AllPaths \ Paths : d[p] = NoFile}
    /\ errdir = << >>
    /\ clock = 1
    /\ given \in Configs
    /\ cfg = NewRunnerCfg(given)
    /\ arg = NoArg /\ res = NoArg
    /\ dbs = [k \in {PeriodKey(1)} |-> EmptyStore]
    /\ dbKey = PeriodKey(1)
    /\ pc = "idle"
    /\ todo = << >> /\ pending = << >> /\ fq = << >> /\ rdbs = << >> /\ revs = << >>
    /\ runErr = "" /\ ret = ""
    /\ stats = ZeroStats
    /\ calls = << >> /\ faults = {}
    /\ runs = 0 /\ writes = 0

\* ---------------------------------------------------------------------
\* Environment, between cycles
\* ---------------------------------------------------------------------
\* what no step of the Runner or of its environment writes
fixedVars == << given, arg, res >>

cycleVars == << pc, todo, pending, fq, rdbs, revs, runErr, ret, stats, calls, faults, runs >>

\* an operator writes a file, or replaces the bytes at a path
WriteFile(p, c) ==
    /\ pc = "idle" /\ writes < MaxWrites /\ runs < MaxRuns
    /\ fs[p] # c
    /\ fs' = [fs EXCEPT ![p] = c]
    /\ writes' = writes + 1
    /\ UNCHANGED << fixedVars, errdir, dbs, dbKey, clock, cfg, cycleVars >>

\* an operator removes a file by hand
RemoveFile(p) ==
    /\ pc = "idle" /\ writes < MaxWrites /\ runs < MaxRuns
    /\ fs[p] # NoFile
    /\ fs' = [fs EXCEPT ![p] = NoFile]
    /\ writes' = writes + 1
    /\ UNCHANGED << fixedVars, errdir, dbs, dbKey, clock, cfg, cycleVars >>

Tick ==
    /\ pc = "idle" /\ clock < MaxClock /\ runs < MaxRuns
    /\ clock' = clock + 1
    /\ UNCHANGED << fixedVars, fs, errdir, dbs, dbKey, cfg, cycleVars, writes >>

\* runner.cfg.ReplayFrom is set to a past instant
SetReplayFrom(t) ==
    /\ pc = "idle" /\ cfg.ReplayFrom = ZeroTime /\ t <= clock /\ runs < MaxRuns
    /\ cfg' = [cfg EXCEPT !.ReplayFrom = t]
    /\ UNCHANGED << fixedVars, fs, errdir, dbs, dbKey, clock, cycleVars, writes >>

\* ---------------------------------------------------------------------
\* RunOnce
\* ---------------------------------------------------------------------
\* `runErr = err; return err`, then the deferred closure: the heartbeat is
\* sent when a token is configured (its result is discarded); RunOnce is over
Return(err) ==
    /\ runErr' = err /\ ret' = err
    /\ calls' = IF DeadmanEnabled(cfg)
                THEN Append(calls, sendDeadman(cfg, stats, err))
                ELSE calls
    /\ pc' = "done"
    /\ todo' = << >> /\ pending' = << >> /\ fq' = << >> /\ rdbs' = << >> /\ revs' = << >>

\* the results isDeadlineExceeded(deadline) can give at one check: never true
\* without a deadline (cfg.Timeout = 0); every check that sees true returns
\* a check that can see the deadline exceeded when none is configured
DeadlineResultsUnconfigured(c) == BOOLEAN

DeadlineResults(c) == IF c.Timeout THEN BOOLEAN ELSE {FALSE}

\* OpenDB: the store file at key k, created empty when it does not exist
OpenDB(d, k) == [j \in DOMAIN d \cup {k} |-> IF j \in DOMAIN d THEN d[j] ELSE EmptyStore]

\* ensureDBForNow: keep the open store if its key is the current period,
\* otherwise close it and open or create the store of the current period
\* (with the single static path: keep the open store whatever the period)
\* an ensureDBForNow that keeps an open store whatever the period
ensureDBForNowKeepsOpen(c, d, key, now, ok) ==
    IF key # NoKey THEN [dbs |-> d, dbKey |-> key, err |-> ""]
    ELSE IF ~ok THEN [dbs |-> d, dbKey |-> NoKey, err |-> "open failed"]
    ELSE IF Blank(Txt(c.DBFolder))
    THEN [dbs |-> OpenDB(d, StaticKey), dbKey |-> StaticKey, err |-> ""]
    ELSE [dbs |-> OpenDB(d, PeriodKey(now)), dbKey |-> PeriodKey(now), err |-> ""]

ensureDBForNow(c, d, key, now, ok) ==
    IF Blank(Txt(c.DBFolder))
    THEN IF key # NoKey THEN [dbs |-> d, dbKey |-> key, err |-> ""]
         ELSE IF ~ok THEN [dbs |-> d, dbKey |-> NoKey, err |-> "open failed"]
         ELSE [dbs |-> OpenDB(d, StaticKey), dbKey |-> StaticKey, err |-> ""]
    ELSE IF key # NoKey /\ key = PeriodKey(now) THEN [dbs |-> d, dbKey |-> key, err |-> ""]
    ELSE IF ~ok THEN [dbs |-> d, dbKey |-> NoKey, err |-> "open failed"]
    ELSE [dbs |-> OpenDB(d, PeriodKey(now)), dbKey |-> PeriodKey(now), err |-> ""]

\* time.Now() as ensureDBForNow reads it: the wall clock of the zone the
\* process runs in.  `clock` is the UTC instant (time.Now().UTC()); the zone
\* is UTC unless the run is started in one with an offset.
ZoneOffset == IF arg.fn = "zone" THEN arg.offset ELSE 0

Local(t) == t + ZoneOffset

\* RunOnce up to the replay branch; with cfg.InputGlobs empty expandGlobs
\* returns no path and the first ingestion loop has no iteration
StartRun ==
    /\ pc = "idle" /\ runs < MaxRuns
    /\ runs' = runs + 1
    /\ \E ok \in BOOLEAN :
        LET e == ensureDBForNow(cfg, dbs, dbKey, Local(clock), ok)
        IN  /\ dbs' = e.dbs /\ dbKey' = e.dbKey
            /\ IF e.err # "" THEN Return(e.err)
               ELSE IF cfg.ReplayFrom # ZeroTime /\ Blank(Txt(cfg.DBFolder))
               THEN Return("replay requires DBFolder")
               ELSE IF cfg.ReplayFrom # ZeroTime
               THEN /\ pc' = "replay"
                    /\ rdbs' = listMonthlyDBs(e.dbs, cfg.ReplayFrom, clock)
                    /\ UNCHANGED << todo, pending, fq, revs, runErr, ret, calls >>
               ELSE /\ pc' = "expand"
                    /\ UNCHANGED << todo, pending, fq, rdbs, revs, runErr, ret, calls >>
    /\ UNCHANGED << fixedVars, fs, errdir, clock, cfg, stats, faults, writes >>

\* the effect of one step of the cycle on the directory, the open store,
\* the counters and the sender
Apply(w) ==
    /\ fs' = w.fs /\ errdir' = w.errdir
    /\ dbs' = [dbs EXCEPT ![dbKey] = w.db]
    /\ stats' = w.stats /\ calls' = w.calls /\ faults' = w.faults

\* expandGlobWithDoubleStar over the paths a pattern covers, in glob order
expandGlob(dir, covered) == SelectSeq(covered, LAMBDA p : dir[p] # NoFile)

\* items, err := r.expandInputs(r.cfg.Inputs)
ExpandInputs ==
    /\ pc = "expand"
    /\ \E ok \in BOOLEAN :
        IF ~ok THEN Return("glob failed")
        ELSE /\ todo' = expandGlob(fs, GlobOrder)
             /\ pc' = "inputs"
             /\ UNCHANGED << pending, fq, rdbs, revs, runErr, ret, calls >>
    /\ UNCHANGED << fixedVars, fs, errdir, dbs, dbKey, clock, cfg, stats, faults, runs, writes >>

\* one iteration of `for _, it := range items`
IngestInput ==
    /\ pc = "inputs" /\ todo # << >>
    /\ \E exceeded \in DeadlineResults(cfg) :
        IF exceeded
        THEN /\ Return("timeout exceeded")
             /\ UNCHANGED << fs, errdir, dbs, stats, faults >>
        ELSE /\ \E ch \in IngestChoicesAt(World, Head(todo), cfg.ErrorDir) :
                 Apply(ingestFile(World, cfg, Head(todo), cfg.ErrorDir, clock, ch))
             /\ todo' = Tail(todo)
             /\ UNCHANGED << pc, pending, fq, rdbs, revs, runErr, ret >>
    /\ UNCHANGED << fixedVars, dbKey, clock, cfg, runs, writes >>

\* the deadline check before resendPending, and its query
BeginResend ==
    /\ pc = "inputs" /\ todo = << >>
    /\ \E exceeded \in DeadlineResults(cfg), ok \in BOOLEAN :
        IF exceeded THEN Return("timeout exceeded")
        ELSE IF ~ok THEN Return("query failed")
        ELSE /\ pending' = PendingQuery(dbs[dbKey])
             /\ pc' = "resend"
             /\ UNCHANGED << todo, fq, rdbs, revs, runErr, ret, calls >>
    /\ UNCHANGED << fixedVars, fs, errdir, dbs, dbKey, clock, cfg, stats, faults, runs, writes >>

\* one iteration of `for _, ev := range pending`
ResendOne ==
    /\ pc = "resend" /\ pending # << >>
    /\ \E exceeded \in DeadlineResults(cfg) :
        IF exceeded
        THEN /\ Return("timeout exceeded")
             /\ UNCHANGED << fs, errdir, dbs, stats, faults >>
        ELSE /\ \E ok \in BOOLEAN :
                 Apply(resendOne(World, cfg, Head(pending).id, Head(pending).ev, clock, ok))
             /\ pending' = Tail(pending)
             /\ UNCHANGED << pc, todo, fq, rdbs, revs, runErr, ret >>
    /\ UNCHANGED << fixedVars, dbKey, clock, cfg, runs, writes >>

\* the deadline check before finalizeFiles, and its query
BeginFinalize ==
    /\ pc = "resend" /\ pending = << >>
    /\ \E exceeded \in DeadlineResults(cfg), ok \in BOOLEAN :
        IF exceeded THEN Return("timeout exceeded")
        ELSE IF ~ok THEN Return("query failed")
        ELSE /\ fq' = FinalizeQuery(dbs[dbKey])
             /\ pc' = "finalize"
             /\ UNCHANGED << todo, pending, rdbs, revs, runErr, ret, calls >>
    /\ UNCHANGED << fixedVars, fs, errdir, dbs, dbKey, clock, cfg, stats, faults, runs, writes >>

\* one iteration of `for _, pf := range pfs`
FinalizeOne ==
    /\ pc = "finalize" /\ fq # << >>
    /\ \E ch \in FinalizeChoices :
        Apply(finalizeOne(World, cfg, Head(fq).id, Head(fq).pf, clock, ch))
    /\ fq' = Tail(fq)
    /\ UNCHANGED << fixedVars, dbKey, clock, cfg, pc, todo, pending, rdbs, revs, runErr, ret,
                    runs, writes >>

\* finalizeFiles returned nil: `return nil`
ReturnOK ==
    /\ pc = "finalize" /\ fq = << >>
    /\ Return("")
    /\ UNCHANGED << fixedVars, fs, errdir, dbs, dbKey, clock, cfg, stats, faults, runs, writes >>

ReplayOutcomes == {"ok", "open failed", "query failed"}

\* replayFrom: the next store file is opened and queried
ReplayOpen ==
    /\ pc = "replay" /\ revs = << >> /\ rdbs # << >>
    /\ \E exceeded \in DeadlineResults(cfg), o \in ReplayOutcomes :
        IF exceeded THEN Return("timeout exceeded")
        ELSE IF o # "ok" THEN Return(o)
        ELSE /\ revs' = ReplayQuery(dbs[Head(rdbs)], cfg.ReplayFrom)
             /\ rdbs' = Tail(rdbs)
             /\ UNCHANGED << pc, todo, pending, fq, runErr, ret, calls >>
    /\ UNCHANGED << fixedVars, fs, errdir, dbs, dbKey, clock, cfg, stats, faults, runs, writes >>

\* replayFrom: one iteration of `for _, ev := range events`
ReplayOne ==
    /\ pc = "replay" /\ revs # << >>
    /\ \E exceeded \in DeadlineResults(cfg) :
        IF exceeded
        THEN /\ Return("timeout exceeded")
             /\ UNCHANGED << fs, errdir, dbs, stats, faults >>
        ELSE /\ \E ok \in BOOLEAN : Apply(replayOne(World, cfg, Head(revs), ok))
             /\ revs' = Tail(revs)
             /\ UNCHANGED << pc, todo, pending, fq, rdbs, runErr, ret >>
    /\ UNCHANGED << fixedVars, dbKey, clock, cfg, runs, writes >>

\* replayFrom returned nil
ReplayDone ==
    /\ pc = "replay" /\ revs = << >> /\ rdbs = << >>
    /\ Return("")
    /\ UNCHANGED << fixedVars, fs, errdir, dbs, dbKey, clock, cfg, stats, faults, runs, writes >>

\* main's loop: RunOnce has returned, its result is logged, the loop sleeps;
\* the counters and the call log of the cycle are gone
Sleep ==
    /\ pc = "done"
    /\ pc' = "idle"
    /\ runErr' = "" /\ ret' = ""
    /\ stats' = ZeroStats /\ calls' = << >> /\ faults' = {}
    /\ UNCHANGED << fixedVars, fs, errdir, dbs, dbKey, clock, cfg, todo, pending, fq, rdbs, revs,
                    runs, writes >>

Next ==
    \/ \E p \in Paths, c \in Contents : WriteFile(p, c)
    \/ \E p \in Paths : RemoveFile(p)
    \/ Tick
    \/ \E t \in Times : SetReplayFrom(t)
    \/ StartRun
    \/ ExpandInputs
    \/ IngestInput
    \/ BeginResend
    \/ ResendOne
    \/ BeginFinalize
    \/ FinalizeOne
    \/ ReturnOK
    \/ ReplayOpen
    \/ ReplayOne
    \/ ReplayDone
    \/ Sleep

Spec == Init /\ [][Next]_vars

\* ---------------------------------------------------------------------
\* One cycle over a batch: a Runner just built, an empty store, up to
\* BatchSize files in the input directory (one-object files, files that are
\* not JSON), one RunOnce
\* ---------------------------------------------------------------------
BatchContents == ObjectContents \cup {"BAD"}

BatchInit ==
    /\ fs \in {d \in [AllPaths -> BatchContents \cup {NoFile}] :
                   \A p \in AllPaths \ BatchPaths : d[p] = NoFile}
    /\ errdir = << >>
    /\ clock = 1
    /\ given \in Configs
    /\ cfg = NewRunnerCfg(given)
    /\ arg = NoArg /\ res = NoArg
    /\ dbs = [k \in {PeriodKey(1)} |-> EmptyStore]
    /\ dbKey = PeriodKey(1)
    /\ pc = "idle"
    /\ todo = << >> /\ pending = << >> /\ fq = << >> /\ rdbs = << >> /\ revs = << >>
    /\ runErr = "" /\ ret = ""
    /\ stats = ZeroStats
    /\ calls = << >> /\ faults = {}
    /\ runs = MaxRuns - 1 /\ writes = 0

BatchNext ==
    \/ StartRun
    \/ ExpandInputs
    \/ IngestInput
    \/ BeginResend
    \/ ResendOne
    \/ BeginFinalize
    \/ FinalizeOne
    \/ ReturnOK

SpecBatch == BatchInit /\ [][BatchNext]_vars

\* ---------------------------------------------------------------------
\* MoveFileToDir on its own: files are written to the input directory and
\* moved, one call after the other, to a directory that may already hold
\* a file an operator put there
\* ---------------------------------------------------------------------
\* the Runner's state, which MoveFileToDir does not touch
runnerVars == << dbs, dbKey, clock, cfg, pc, todo, pending, fq, rdbs, revs,
                 runErr, ret, stats, calls, runs, given >>

DstDirs == {"", " ", ErrorDir}

\* the first result of MoveFileToDir: the destination path, "" with an error
MoveDst(w, src, dstDir, outcome) ==
    IF MoveFileToDir(w, src, dstDir, outcome).err # "" THEN << "", 0 >>
    ELSE DstName(w.errdir, src)

MoveInit ==
    /\ fs \in [AllPaths -> {"OBJ", "BAD", NoFile}]
    /\ errdir \in {<< >>} \cup {[n \in {<< Base(p), 0 >>} |-> "existing"] : p \in AllPaths}
    /\ clock = 1
    /\ given \in {c \in Configs : c.DeleteAfterSend /\ ~c.Timeout /\ c.DeadmanToken = ""
                                   /\ c.ErrorDir = ErrorDir}
    /\ cfg = NewRunnerCfg(given)
    /\ arg = NoArg /\ res = NoArg
    /\ dbs = [k \in {PeriodKey(1)} |-> EmptyStore]
    /\ dbKey = PeriodKey(1)
    /\ pc = "idle"
    /\ todo = << >> /\ pending = << >> /\ fq = << >> /\ rdbs = << >> /\ revs = << >>
    /\ runErr = "" /\ ret = ""
    /\ stats = ZeroStats
    /\ calls = << >> /\ faults = {}
    /\ runs = 0 /\ writes = 0

\* a new file appears at a source path
MoveWrite(p, c) ==
    /\ writes < MaxWrites
    /\ fs[p] # c
    /\ fs' = [fs EXCEPT ![p] = c]
    /\ writes' = writes + 1
    /\ arg' = NoArg /\ res' = NoArg
    /\ UNCHANGED << errdir, faults, runnerVars >>

\* dst, err := MoveFileToDir(src, dstDir)
CallMove(src, dstDir, outcome) ==
    /\ Cardinality(DOMAIN errdir) < MaxMoved
    /\ LET m == MoveFileToDir(World, src, dstDir, outcome)
       IN  /\ fs' = m.fs /\ errdir' = m.errdir /\ faults' = m.faults
           /\ arg' = [fn |-> "MoveFileToDir", src |-> src, dstDir |-> dstDir,
                      fs |-> fs, errdir |-> errdir]
           /\ res' = [fn |-> "MoveFileToDir",
                      dst |-> MoveDst(World, src, dstDir, outcome), err |-> m.err]
    /\ UNCHANGED << writes, runnerVars >>

MoveNext ==
    \/ \E p \in AllPaths, c \in {"OBJ", "BAD"} : MoveWrite(p, c)
    \/ \E src \in AllPaths, d \in DstDirs, o \in MoveOutcomes : CallMove(src, d, o)

SpecMove == MoveInit /\ [][MoveNext]_vars

\* ---------------------------------------------------------------------
\* Functions applied on their own: the Runner is at rest, `arg` holds the
\* arguments of one call, `res` its result once the call has been made
\* ---------------------------------------------------------------------
AtRest ==
    /\ fs = [p \in AllPaths |-> NoFile]
    /\ errdir = << >>
    /\ clock = 1
    /\ given = CHOOSE c \in Configs : /\ c.DeleteAfterSend /\ ~c.Timeout
                                      /\ c.DeadmanToken = "" /\ c.ErrorDir = ""
    /\ cfg = NewRunnerCfg(given)
    /\ dbs = [k \in {PeriodKey(1)} |-> EmptyStore]
    /\ dbKey = PeriodKey(1)
    /\ pc = "idle"
    /\ todo = << >> /\ pending = << >> /\ fq = << >> /\ rdbs = << >> /\ revs = << >>
    /\ runErr = "" /\ ret = ""
    /\ stats = ZeroStats
    /\ calls = << >> /\ faults = {}
    /\ runs = 0 /\ writes = 0

restVars == << fs, errdir, faults, writes, runnerVars >>

\* ---------------------------------------------------------------------
\* NormalizeText and HashNormalized on pairs of key texts: a body, and a
\* timestamp of one of the forms the patterns are written for, before,
\* inside or after the body
\* ---------------------------------------------------------------------
Bodies ==
    {<< "f", "o", "o", " ", "u", "p" >>,
     << "b", "a", "r", " ", "u", "p" >>,
     << "e", "r", "r", " ", "4", "2" >>}

DateText(sep, v) ==
    << "2", "0", "2", "5", sep, "0", "6", sep, "0", IF v = 1 THEN "1" ELSE "2" >>

TimeText(v) ==
    IF v = 1 THEN << "1", "5", ":", "3", "0", ":", "0", "0" >>
    ELSE << "1", "1", ":", "2", "2", ":", "3", "3" >>

FracText(n, v) ==
    << "." >> \o SubSeq(IF v = 1 THEN << "1", "2", "3", "4", "5", "6" >>
                        ELSE << "4", "5", "6", "7", "8", "9" >>, 1, n)

Forms ==
    {"space-sec", "T-sec", "T-min", "T-frac3", "T-frac6", "space-frac3",
     "space-frac6", "dot-sec", "dot-frac3", "slash-min", "short"}

\* the timestamp of the form, with the digits of variant v
Stamp(form, v) ==
    CASE form = "space-sec" -> DateText("-", v) \o << " " >> \o TimeText(v)
      [] form = "T-sec" -> DateText("-", v) \o << "T" >> \o TimeText(v)
      [] form = "T-min" -> DateText("-", v) \o << "T" >> \o SubSeq(TimeText(v), 1, 5)
      [] form = "T-frac3" ->
            DateText("-", v) \o << "T" >> \o TimeText(v) \o FracText(3, v)
      [] form = "T-frac6" ->
            DateText("-", v) \o << "T" >> \o TimeText(v) \o FracText(6, v)
      [] form = "space-frac3" ->
            DateText("-", v) \o << " " >> \o TimeText(v) \o FracText(3, v)
      [] form = "space-frac6" ->
            DateText("-", v) \o << " " >> \o TimeText(v) \o FracText(6, v)
      [] form = "dot-sec" -> DateText(".", v) \o << "T" >> \o TimeText(v)
      [] form = "dot-frac3" ->
            DateText(".", v) \o << "T" >> \o TimeText(v) \o FracText(3, v)
      [] form = "slash-min" ->
            DateText("/", v) \o << " " >> \o SubSeq(TimeText(v), 1, 5)
      [] form = "short" ->
            IF v = 1
            THEN << "2", "0", "2", "5", "-", "6", "-", "1", " ",
                    "5", ":", "3", ":", "0" >>
            ELSE << "2", "0", "2", "5", "-", "6", "-", "2", " ",
                    "7", ":", "4", ":", "9" >>

Places == {"head", "mid", "tail"}

KeyText(body, stamp, place) ==
    CASE place = "head" -> stamp \o << " " >> \o body
      [] place = "mid" -> << "a", "t", " " >> \o stamp \o << " ", " " >> \o body
      [] place = "tail" -> body \o << " " >> \o stamp

\* r.cfg.HashHexLen as main sets it
HashHexLen == 24

NormalizeInputs ==
    {[fn |-> "NormalizeText", body1 |-> b1, body2 |-> b2, form |-> f, place |-> pl,
      text1 |-> KeyText(b1, Stamp(f, 1), pl),
      text2 |-> KeyText(b2, Stamp(f, 2), pl)] :
        b1 \in Bodies, b2 \in Bodies, f \in Forms, pl \in Places}

NormalizeInit == AtRest /\ arg \in NormalizeInputs /\ res = NoArg

\* normalized := NormalizeText(keyText); hash := HashNormalized(normalized, ...)
CallNormalizeText ==
    /\ arg.fn = "NormalizeText" /\ res = NoArg
    /\ res' = [fn |-> "NormalizeText",
               n1 |-> NormalizeText(arg.text1), n2 |-> NormalizeText(arg.text2),
               h1 |-> HashNormalized(NormalizeText(arg.text1), HashHexLen),
               h2 |-> HashNormalized(NormalizeText(arg.text2), HashHexLen)]
    /\ UNCHANGED << arg, restVars >>

NormalizeNext == CallNormalizeText

SpecNormalize == NormalizeInit /\ [][NormalizeNext]_vars

\* ---------------------------------------------------------------------
\* buildStructuredData on maps over some preferred and some other keys,
\* a key being absent or having an empty, a blank or a plain value
\* ---------------------------------------------------------------------
SDKeyUniverse == {"job", "env", "cccc", "deadman", "zzz", "aaa"}

SDValues == {<< >>, << " " >>, << "v" >>}

SDIds == {"", "cndp", "x"}

SDInputs ==
    {[fn |-> "buildStructuredData", id |-> id, kv |-> kv] :
        id \in SDIds,
        kv \in UNION {[K -> SDValues] : K \in SUBSET SDKeyUniverse}}

SDInit == AtRest /\ arg \in SDInputs /\ res = NoArg

\* structured := buildStructuredData(sdID, labels)
CallBuildStructuredData ==
    /\ arg.fn = "buildStructuredData" /\ res = NoArg
    /\ res' = [fn |-> "buildStructuredData", sd |-> buildStructuredData(arg.id, arg.kv)]
    /\ UNCHANGED << arg, restVars >>

SDNext == CallBuildStructuredData

SpecSD == SDInit /\ [][SDNext]_vars

\* ---------------------------------------------------------------------
\* Tagging on its own: key texts, code lists, the enabled flag
\* ---------------------------------------------------------------------
ZBBB == << "Z", "B", "B", "B" >>

ZGGG == << "Z", "G", "G", "G" >>

TagTexts ==
    {<< "h", "i", " " >> \o ZGGG \o << "Z", "H", "H", "H", " ", "x" >>,
     << "u", "p", " ", "z", "b", "b", "b" >>,
     << "1", "2", ":", "0", "0", " " >> \o ZGGG \o << " " >> \o ZBBB,
     << "Z", "b", "B", "b", "z", "g", "g" >>,
     << "o", "k" >>,
     << >>}

CodeLists ==
    {<< >>, << ZBBB >>, << ZBBB, ZGGG >>, << ZGGG, ZBBB >>,
     << << " ", "z", "g", "g", "g", "\t" >> >>,
     << << " " >>, ZBBB >>,
     << << "z", "b", "b", "b" >>, ZGGG >>}

TagInputs ==
    {[fn |-> "ExtractCCCC", text |-> t, cfg |-> [CCCCEnabled |-> e, CCCCCodes |-> cs]] :
        t \in TagTexts, cs \in CodeLists, e \in BOOLEAN}

TagInit == AtRest /\ arg \in TagInputs /\ res = NoArg

\* cccc := "none"; if len(r.cfg.CCCCCodes) > 0 { cccc = ExtractCCCC(...) }
CallEventTag ==
    /\ arg.fn = "ExtractCCCC" /\ res = NoArg
    /\ res' = [fn |-> "ExtractCCCC", tag |-> EventTag(arg.cfg, arg.text)]
    /\ UNCHANGED << arg, restVars >>

TagNext == CallEventTag

SpecTag == TagInit /\ [][TagNext]_vars

\* ---------------------------------------------------------------------
\* The alert level on its own: decoded items with any of the fields status,
\* level, severity, and source paths with several extensions
\* ---------------------------------------------------------------------
Str(s) == [t |-> "str", s |-> s]

Num(n) == [t |-> "num", n |-> n]

LevelValues ==
    {Str(<< "w", "a", "r", "n" >>), Str(<< " ", "W", "a", "r", "n", "i", "n", "g", " " >>), Str(<< "E", "R", "R", "O", "R" >>),
     Str(<< "c", "r", "i", "t", "i", "c", "a", "l" >>), Str(<< "i", "n", "f", "o" >>), Str(<< >>),
     Num(1), Num(2), Num(5), Num(6), [t |-> "null"]}

\* the objects: any subset of the three fields, the present ones with values
\* of LevelValues; and an item that is not an object
LevelItems ==
    {[isMap |-> TRUE, fields |-> f] :
        f \in UNION {[K -> LevelValues] : K \in SUBSET {"status", "level", "severity"}}}
    \cup {[isMap |-> FALSE, fields |-> << >>]}

SourcePaths ==
    {<< "g", "/", "a", ".", "w", "a", "r", "n" >>, << "g", "/", "a", ".", "a", "l", "a", "r", "m" >>, << "g", "/", "a", ".", "W", "A", "R", "N" >>,
     << "g", ".", "w", "a", "r", "n", "/", "a" >>, << "g", "/", "a", ".", "t", "x", "t" >>}

LevelInputs ==
    {[fn |-> "ExtractAlertLevel", item |-> it, path |-> p] :
        it \in LevelItems, p \in SourcePaths}

LevelInit == AtRest /\ arg \in LevelInputs /\ res = NoArg

\* alertLevel := ExtractAlertLevel(item, sourcePath)
CallExtractAlertLevel ==
    /\ arg.fn = "ExtractAlertLevel" /\ res = NoArg
    /\ res' = [fn |-> "ExtractAlertLevel", level |-> ExtractAlertLevel(arg.item, arg.path)]
    /\ UNCHANGED << arg, restVars >>

LevelNext == CallExtractAlertLevel

SpecLevel == LevelInit /\ [][LevelNext]_vars

\* ---------------------------------------------------------------------
\* Store rotation: cycles of a Runner with rotating stores or with the single
\* static store path, while time passes at any moment, inside a cycle too
\* ---------------------------------------------------------------------
RotateConfigs ==
    {c \in Configs \cup StaticConfigs :
        c.DeleteAfterSend /\ ~c.Timeout /\ c.DeadmanToken = "" /\ c.ErrorDir = ""}

RotateInit ==
    /\ fs \in {d \in [AllPaths -> {"OBJ", "ARR", NoFile}] :
                   \A p \in AllPaths \ Paths : d[p] = NoFile}
    /\ errdir = << >>
    /\ clock = 1
    /\ given \in RotateConfigs
    /\ cfg = NewRunnerCfg(given)
    /\ arg = NoArg /\ res = NoArg
    /\ LET e == ensureDBForNow(NewRunnerCfg(given), << >>, NoKey, 1, TRUE)
       IN  dbs = e.dbs /\ dbKey = e.dbKey
    /\ pc = "idle"
    /\ todo = << >> /\ pending = << >> /\ fq = << >> /\ rdbs = << >> /\ revs = << >>
    /\ runErr = "" /\ ret = ""
    /\ stats = ZeroStats
    /\ calls = << >> /\ faults = {}
    /\ runs = 0 /\ writes = 0

\* time passes, whatever the Runner is doing
RotateTick ==
    /\ clock < MaxClock
    /\ clock' = clock + 1
    /\ UNCHANGED << fixedVars, fs, errdir, dbs, dbKey, cfg, cycleVars, writes >>

RotateNext ==
    \/ RotateTick
    \/ \E p \in Paths, c \in {"OBJ", "ARR"} : WriteFile(p, c)
    \/ StartRun
    \/ ExpandInputs
    \/ IngestInput
    \/ BeginResend
    \/ ResendOne
    \/ BeginFinalize
    \/ FinalizeOne
    \/ ReturnOK
    \/ Sleep

SpecRotate == RotateInit /\ [][RotateNext]_vars

\* ---------------------------------------------------------------------
\* Replay on its own: a Runner started with ReplayFrom set, over a ledger of
\* up to three store files written by earlier cycles, one RunOnce
\* ---------------------------------------------------------------------
\* time.Now() of the replay; instant 1 lies in period 0, instants 2 and 3
\* in period 1, instant 4 in period 2
ReplayNow == 4

\* the store `db` after a cycle at instant t ingested the file at `path`
\* with content `sha`, the sends of its events succeeding as `oks` says
Ingested(db, path, sha, t, oks) ==
    LET c == NewRunnerCfg(CHOOSE g \in Configs :
                  g.DeleteAfterSend /\ ~g.Timeout /\ g.DeadmanToken = "" /\ g.ErrorDir = "")
        w == [fs |-> [p \in AllPaths |-> IF p = path THEN sha ELSE NoFile],
              errdir |-> << >>, db |-> db, stats |-> ZeroStats, calls |-> << >>,
              faults |-> {}, err |-> ""]
        ch == [read |-> TRUE, query |-> TRUE, tx |-> TRUE, rm |-> TRUE, upd |-> TRUE,
               mv |-> "ok", oks |-> oks]
    IN  ingestFile(w, c, path, "", t, ch).db

SendsOK == [i \in 1..2 |-> TRUE]

SendsFail == [i \in 1..2 |-> FALSE]

FirstSendOK == [i \in 1..2 |-> i = 1]

\* what the store file of period k can hold
ReplayStores(k) ==
    IF k = 0
    THEN {EmptyStore,
          Ingested(EmptyStore, PathOf(1), "OBJ", 1, SendsOK),
          Ingested(EmptyStore, PathOf(1), "OBJ", 1, SendsFail)}
    ELSE IF k = 1
    THEN {EmptyStore,
          Ingested(EmptyStore, PathOf(1), "ARR", 2, FirstSendOK),
          Ingested(Ingested(EmptyStore, PathOf(1), "ARR", 2, SendsOK),
                   PathOf(2), "OBJ", 3, SendsFail),
          Ingested(EmptyStore, PathOf(2), "OBJ", 3, SendsOK)}
    ELSE {EmptyStore,
          Ingested(EmptyStore, PathOf(2), "BAD", ReplayNow, SendsFail),
          Ingested(EmptyStore, PathOf(1), "OBJ@", ReplayNow, SendsOK)}

\* the ledgers: the store of the current period, and any earlier store files
ReplayLedgers ==
    UNION {{d \in [S -> UNION {ReplayStores(k) : k \in S}] :
               \A k \in S : d[k] \in ReplayStores(k)} :
           S \in {S \in SUBSET (0..PeriodKey(ReplayNow)) : PeriodKey(ReplayNow) \in S}}

ReplayConfigs ==
    {[c EXCEPT !.ReplayFrom = t] :
        c \in {g \in Configs : g.DeleteAfterSend /\ g.DeadmanToken = "" /\ g.ErrorDir = ""},
        t \in 1..ReplayNow}

ReplayInit ==
    /\ fs = [p \in AllPaths |-> NoFile]
    /\ errdir = << >>
    /\ clock = ReplayNow
    /\ given \in ReplayConfigs
    /\ cfg = NewRunnerCfg(given)
    /\ arg = NoArg /\ res = NoArg
    /\ dbs \in ReplayLedgers
    /\ dbKey = PeriodKey(ReplayNow)
    /\ pc = "idle"
    /\ todo = << >> /\ pending = << >> /\ fq = << >> /\ rdbs = << >> /\ revs = << >>
    /\ runErr = "" /\ ret = ""
    /\ stats = ZeroStats
    /\ calls = << >> /\ faults = {}
    /\ runs = 0 /\ writes = 0

ReplayNext ==
    \/ StartRun
    \/ ReplayOpen
    \/ ReplayOne
    \/ ReplayDone

SpecReplay == ReplayInit /\ [][ReplayNext]_vars

\* ---------------------------------------------------------------------
\* The timeout of a send on its own.  Instants and durations are counted in
\* microseconds; the zero instant is time.Time{} (no deadline).
\* ---------------------------------------------------------------------
Millisecond == 1000

Second == 1000 * Millisecond

\* the fallback every call site passes: 3*time.Second
SendCeiling == 3 * Second

\* a remainingTimeout that hands a passed deadline's remainder on as it is
remainingTimeoutNoFloor(deadline, now, fallback) ==
    IF deadline = ZeroTime THEN fallback
    ELSE LET rem == deadline - now
         IN  IF fallback <= 0 \/ rem < fallback THEN rem ELSE fallback

remainingTimeout(deadline, now, fallback) ==
    IF deadline = ZeroTime THEN fallback
    ELSE LET rem == deadline - now
         IN  IF rem <= 0 THEN Millisecond
             ELSE IF fallback <= 0 \/ rem < fallback THEN rem
             ELSE fallback

\* SendRFC5424Timeout: with timeout <= 0 the send is made without a timeout,
\* otherwise the dial and the connection deadline take the timeout
SendRFC5424Timeout(timeout) ==
    IF timeout <= 0 THEN [timed |-> FALSE, timeout |-> 0]
    ELSE [timed |-> TRUE, timeout |-> timeout]

\* the four callers of SendRFC5424Timeout
SendSites == {"archiveAndMarkFile", "resendPending", "replayFrom", "sendDeadman"}

\* the timeout argument at each call site
SendTimeoutAt(site, deadline, now) == remainingTimeout(deadline, now, SendCeiling)

\* time.Now() at the send, and the deadline's distance from it
SendInstants == {10 * Second, 10 * Second + 500}

Remainders ==
    {0 - 5 * Second, 0 - Second, 0 - 1, 0, 1, 999, Millisecond, Millisecond + 1, Second,
     SendCeiling - 1, SendCeiling, SendCeiling + 1, 10 * Second}

\* the deadlines around the instant n, and no deadline
DeadlinesAt(n) == {ZeroTime} \cup {n + r : r \in Remainders}

TimeoutInputs ==
    UNION {{[fn |-> "send", site |-> s, now |-> n, deadline |-> d] :
               s \in SendSites, d \in DeadlinesAt(n)} : n \in SendInstants}

TimeoutInit == AtRest /\ arg \in TimeoutInputs /\ res = NoArg

\* r.syslog.SendRFC5424Timeout(..., remainingTimeout(deadline, 3*time.Second))
CallSend ==
    /\ arg.fn = "send" /\ res = NoArg
    /\ res' = [fn |-> "send",
               send |-> SendRFC5424Timeout(SendTimeoutAt(arg.site, arg.deadline, arg.now))]
    /\ UNCHANGED << arg, restVars >>

TimeoutNext == CallSend

SpecTimeout == TimeoutInit /\ [][TimeoutNext]_vars

\* ---------------------------------------------------------------------
\* Properties
\* ---------------------------------------------------------------------
\* store `db` holds a file row for (path, sha) and events of it, every one sent
ArchivedAndSent(db, path, sha) ==
    /\ FileIds(db, path, sha) # {}
    /\ EventIds(db, path, sha) # {}
    /\ \A i \in EventIds(db, path, sha) : db.events[i].sent_syslog

\* the send `call` carried the event of row `ev`
CallIsFor(call, ev) ==
    /\ call.source = ev.source_path
    /\ call.event_index = ev.event_index
    /\ call.event = ev.event_json

\* the sends of the cycle made by `by` with result `ok` for the event of row `ev`
CallsFor(by, ok, ev) ==
    {i \in DOMAIN calls : calls[i].by = by /\ calls[i].ok = ok /\ CallIsFor(calls[i], ev)}

\* C1: no premature deletion.  Whenever a step of the Runner removes the
\* source file at a path (the file disappears and is not moved to the error
\* directory), the store then holds a file row for (path, digest of the
\* removed content) and events of it, all with sent = true.
C1_NoPrematureDeletion ==
    [][\A p \in Paths :
          (pc # "idle" /\ fs[p] # NoFile /\ fs'[p] = NoFile /\ errdir' = errdir)
             => ArchivedAndSent(dbs'[dbKey'], p, fs[p])]_vars

\* C2: at the end of a cycle in which the first send and the same-cycle
\* resend of an event of a newly ingested decodable file both failed, the
\* source file still exists, the event row is unsent with a non-empty send
\* error, and the file row has all_sent = false and deleted = false.
C2_FailedSendKeepsFile ==
    (pc = "done" /\ dbKey # NoKey) =>
        \A e \in DOMAIN dbs[dbKey].events :
            LET ev == dbs[dbKey].events[e]
                db == dbs[dbKey]
            IN  (/\ ev.event_json # "{}"
                 /\ CallsFor("archiveAndMarkFile", FALSE, ev) # {}
                 /\ CallsFor("resendPending", FALSE, ev) # {})
                => /\ fs[ev.source_path] = ev.file_sha256
                   /\ ~ev.sent_syslog /\ ev.send_error # ""
                   /\ FileIds(db, ev.source_path, ev.file_sha256) # {}
                   /\ \A f \in FileIds(db, ev.source_path, ev.file_sha256) :
                         ~db.files[f].all_sent /\ ~db.files[f].deleted

\* the event of row `ev` was resent successfully in this cycle and every
\* event of its file is now sent
LastResendSucceeded(db, ev) ==
    /\ CallsFor("resendPending", TRUE, ev) # {}
    /\ \A i \in EventIds(db, ev.source_path, ev.file_sha256) : db.events[i].sent_syslog

\* the event is sent with its error cleared, the file row is all_sent and
\* deleted, the source file is gone
SentAndDeleted(db, ev) ==
    /\ ev.sent_syslog /\ ev.send_error = ""
    /\ FileIds(db, ev.source_path, ev.file_sha256) # {}
    /\ \A f \in FileIds(db, ev.source_path, ev.file_sha256) :
          db.files[f].all_sent /\ db.files[f].deleted
    /\ fs[ev.source_path] = NoFile

FinalizeFaults(path) == {<< "count", path >>, << "remove", path >>, << "update", path >>}

\* the file of the event was put into the error directory (a malformed or
\* unreadable file; its row is marked deleted when it is moved, not by finalize)
InErrorDir(ev) ==
    \E n \in DOMAIN errdir : n[1] = Base(ev.source_path) /\ errdir[n] = ev.file_sha256

NonReplaySends == {"archiveAndMarkFile", "resendPending"}

\* C4: idempotent re-ingestion.  In a non-replay cycle, while the file at a
\* path has, in a store file of the ledger, a file row for its (path, digest)
\* with all its events sent, no step adds a file row or an event row for that
\* (path, digest) to any store file, and no step sends one of its events.
C4_IdempotentReingestion ==
    [][\A p \in Paths :
          (/\ cfg.ReplayFrom = ZeroTime
           /\ fs[p] # NoFile
           /\ \E k \in DOMAIN dbs : ArchivedAndSent(dbs[k], p, fs[p]))
          => /\ \A k \in DOMAIN dbs' :
                   /\ FileIds(dbs'[k], p, fs[p]) =
                        (IF k \in DOMAIN dbs THEN FileIds(dbs[k], p, fs[p]) ELSE {})
                   /\ EventIds(dbs'[k], p, fs[p]) =
                        (IF k \in DOMAIN dbs THEN EventIds(dbs[k], p, fs[p]) ELSE {})
             /\ \A i \in DOMAIN calls' :
                   (i > Len(calls) /\ calls'[i].by \in NonReplaySends)
                   => ~\E k \in DOMAIN dbs : \E e \in EventIds(dbs[k], p, fs[p]) :
                          CallIsFor(calls'[i], dbs[k].events[e])]_vars

\* C5: at-least-once delivery, as the part a finite run decides.  At the end
\* of a non-replay cycle that went through the resend step and returned no
\* error, every event row of the ledger that is still unsent was retried by
\* the resend step of that cycle.
C5_UnsentRetriedEveryCycle ==
    (pc = "done" /\ cfg.ReplayFrom = ZeroTime /\ ret = "") =>
        \A k \in DOMAIN dbs : \A e \in DOMAIN dbs[k].events :
            ~dbs[k].events[e].sent_syslog
                => \E i \in DOMAIN calls :
                      calls[i].by = "resendPending" /\ CallIsFor(calls[i], dbs[k].events[e])

\* the number of ingestion and resend sends of the cycle for the event of row `ev`
Attempts(ev) ==
    Cardinality({i \in DOMAIN calls :
                    calls[i].by \in NonReplaySends /\ CallIsFor(calls[i], ev)})

\* the first sends of the cycle for the event of row `ev`, by result
FirstSends(ev, ok) == CallsFor("archiveAndMarkFile", ok, ev)

\* row `ev` of store file k was there, unsent, when the cycle started
PendingAtStart(k, ev) ==
    IF k # dbKey THEN ~ev.sent_syslog
    ELSE /\ FirstSends(ev, TRUE) \cup FirstSends(ev, FALSE) = {}
         /\ (~ev.sent_syslog \/ CallsFor("resendPending", TRUE, ev) # {})

\* C6: at the end of a non-replay cycle that returned no error (so did not
\* hit its deadline), an event archived in the cycle had exactly one send
\* attempt if the first succeeded and exactly two if it failed, an event
\* pending at cycle start had exactly one, and no event had more than two.
C6_AttemptsPerCycle ==
    (pc = "done" /\ cfg.ReplayFrom = ZeroTime /\ ret = "") =>
        \A k \in DOMAIN dbs : \A e \in DOMAIN dbs[k].events :
            LET ev == dbs[k].events[e]
            IN  /\ Attempts(ev) <= 2
                /\ (k = dbKey /\ FirstSends(ev, TRUE) # {}) => Attempts(ev) = 1
                /\ (k = dbKey /\ FirstSends(ev, FALSE) # {}) => Attempts(ev) = 2
                /\ PendingAtStart(k, ev) => Attempts(ev) = 1

\* C7: atomic archive.  In every state and in every store file, a
\* (path, digest) has either no file row and no event row, or exactly one
\* file row and exactly the events built from the content (one per element,
\* indexes 0..n-1, or the single error event): never events without the file
\* row, never the file row with part of its events.
C7_AtomicArchive ==
    \A k \in DOMAIN dbs : \A p \in Paths, c \in Contents :
        LET f == FileIds(dbs[k], p, c)
            e == EventIds(dbs[k], p, c)
        IN  \/ f = {} /\ e = {}
            \/ /\ Cardinality(f) = 1
               /\ Cardinality(e) = Elements(c)
               /\ {dbs[k].events[i].event_index : i \in e} = 0..(Elements(c) - 1)

\* an archive transaction failed after the file's events had been sent, next
\* to rows of an earlier content of the path: nothing of the file is stored
C7_Witness ==
    /\ pc = "done" /\ dbKey # NoKey
    /\ \E p \in Paths :
          /\ << "tx", p >> \in faults
          /\ fs[p] # NoFile
          /\ FileIds(dbs[dbKey], p, fs[p]) = {} /\ EventIds(dbs[dbKey], p, fs[p]) = {}
          /\ \E i \in DOMAIN calls : calls[i].by = "archiveAndMarkFile" /\ calls[i].source = p
          /\ \E c \in Contents : Cardinality(EventIds(dbs[dbKey], p, c)) = 2

\* C8: replay does not mutate.  No step of a cycle run with a replay
\* start-time changes a row of any store file (a store file it creates is
\* empty), changes the input directory or the error directory, or makes an
\* ingestion or resend send.
C8_ReplayDoesNotMutate ==
    [][(cfg.ReplayFrom # ZeroTime /\ ~(pc = "idle" /\ pc' = "idle"))
          => /\ fs' = fs /\ errdir' = errdir
             /\ \A k \in DOMAIN dbs : k \in DOMAIN dbs' /\ dbs'[k] = dbs[k]
             /\ \A k \in DOMAIN dbs' \ DOMAIN dbs : dbs'[k] = EmptyStore
             /\ \A i \in DOMAIN calls' : calls'[i].by \notin NonReplaySends]_vars

\* a replay cycle has resent an event with success and the event's row is
\* still unsent, its file still in the input directory
C8_Witness ==
    /\ pc = "done" /\ cfg.ReplayFrom # ZeroTime /\ ret = ""
    /\ \E k \in DOMAIN dbs : \E e \in DOMAIN dbs[k].events :
          /\ ~dbs[k].events[e].sent_syslog
          /\ fs[dbs[k].events[e].source_path] = dbs[k].events[e].file_sha256
          /\ \E i \in DOMAIN calls :
                /\ calls[i].by = "replayFrom" /\ calls[i].ok
                /\ CallIsFor(calls[i], dbs[k].events[e])

\* C9: every send of replay carries replay="true" in its structured data;
\* no send of ingestion, of resend or of the heartbeat carries a replay key.
C9_ReplayTag ==
    \A i \in DOMAIN calls :
        IF calls[i].by = "replayFrom"
        THEN "replay" \in SDKeys(calls[i].sd) /\ SDValue(calls[i].sd, "replay") = << "true" >>
        ELSE "replay" \notin SDKeys(calls[i].sd)

\* a replay cycle with a heartbeat has ended: its sends are a tagged replay
\* send and the untagged heartbeat
C9_Witness ==
    /\ pc = "done"
    /\ \E i, j \in DOMAIN calls :
          /\ calls[i].by = "replayFrom" /\ "replay" \in SDKeys(calls[i].sd)
          /\ calls[j].by = "sendDeadman" /\ "deadman" \in SDKeys(calls[j].sd)

\* C10: with a heartbeat token configured, no heartbeat is sent while RunOnce
\* runs, and when it has returned exactly one has been sent, as the last send
\* of the cycle, with status "ok" and no error text if RunOnce returned nil and
\* status "error" with the error's text otherwise; without a token no
\* heartbeat is ever sent.
C10_OneHeartbeatLast ==
    LET beats == {i \in DOMAIN calls : calls[i].by = "sendDeadman"}
    IN  IF pc = "done" /\ cfg.DeadmanToken # ""
        THEN /\ beats = {Len(calls)} /\ Len(calls) >= 1
             /\ calls[Len(calls)].status = (IF ret = "" THEN "ok" ELSE "error")
             /\ calls[Len(calls)].error = ret
        ELSE beats = {}

\* a cycle cut by its deadline after a send has reported status "error"
C10_Witness ==
    /\ pc = "done" /\ ret = "timeout exceeded" /\ Len(calls) >= 2
    /\ calls[Len(calls)].by = "sendDeadman"
    /\ calls[Len(calls)].status = "error"
    /\ calls[Len(calls)].error = "timeout exceeded"

\* ---------------------------------------------------------------------
\* C11: one archived event and one delivery attempt per one-object file
\* ---------------------------------------------------------------------
\* the sends of the cycle that carry an event (the heartbeat excluded)
EventCalls == {i \in DOMAIN calls : calls[i].by # "sendDeadman"}

\* RunOnce has returned nil and nothing failed on the way
CleanCycle ==
    /\ pc = "done" /\ ret = "" /\ faults = {}
    /\ \A i \in DOMAIN calls : calls[i].ok

\* the files the batch consisted of: no one but the Runner touches the
\* directory during the cycle, so a file of the batch is still there or has
\* a row in the file ledger
BatchFiles ==
    {p \in AllPaths : fs[p] # NoFile
                      \/ \E i \in DOMAIN dbs[dbKey].files : dbs[dbKey].files[i].path = p}

\* every file of the batch holds one JSON object
ObjectBatch ==
    /\ \A p \in AllPaths : fs[p] \in ObjectContents \cup {NoFile}
    /\ \A i \in DOMAIN dbs[dbKey].files : dbs[dbKey].files[i].sha256 \in ObjectContents

\* C11: after a cycle without failures over N new one-object files the event
\* ledger holds N events, one per file, and the sender has seen N event
\* sends, one per file, also for files that share a fingerprint.
C11_OneEventOneSendPerFile ==
    (CleanCycle /\ ObjectBatch) =>
        /\ Len(dbs[dbKey].events) = Cardinality(BatchFiles)
        /\ Cardinality(EventCalls) = Cardinality(BatchFiles)
        /\ \A p \in BatchFiles :
              /\ Cardinality({i \in DOMAIN dbs[dbKey].events :
                                 dbs[dbKey].events[i].source_path = p}) = 1
              /\ Cardinality({i \in EventCalls : calls[i].source = p}) = 1

\* a clean cycle over a full batch, two of its files with different bytes and the
\* same fingerprint
C11_Witness ==
    /\ CleanCycle /\ ObjectBatch
    /\ Cardinality(BatchFiles) = BatchSize
    /\ \E i, j \in DOMAIN dbs[dbKey].events :
          /\ dbs[dbKey].events[i].file_sha256 # dbs[dbKey].events[j].file_sha256
          /\ dbs[dbKey].events[i].content_hash = dbs[dbKey].events[j].content_hash

\* ---------------------------------------------------------------------
\* C12: a file that is not JSON
\* ---------------------------------------------------------------------
Range(f) == {f[i] : i \in DOMAIN f}

\* the error event of the file at `path`, as stored
IsErrorEventOf(ev, path) ==
    /\ ev.source_path = path /\ ev.file_sha256 = "BAD" /\ ev.event_index = 0
    /\ ev.event_json = "{}" /\ ev.alert_level = "unknown" /\ ev.content_hash = ""

\* the step of the ingestion loop that takes the non-JSON file `p` (the
\* deadline not exceeded)
IngestsBad(p) ==
    /\ pc = "inputs" /\ todo # << >> /\ Head(todo) = p /\ fs[p] = "BAD"
    /\ ret' # "timeout exceeded"

\* in that step the file was read, looked up and its transaction committed
ArchivesBad(p) ==
    /\ IngestsBad(p)
    /\ {<< "read", p >>, << "query", p >>, << "tx", p >>} \cap faults' = {}
    /\ ~isAlreadyProcessed(dbs[dbKey], p, "BAD")

\* the sends of the cycle for the event, by the per-file step or by resend
SendsOf(ev, ok) ==
    {i \in DOMAIN calls : /\ calls[i].by \in NonReplaySends
                          /\ CallIsFor(calls[i], ev) /\ calls[i].ok = ok}

C13_WitnessEmptyDir ==
    /\ res.fn = "MoveFileToDir" /\ arg.dstDir = "" /\ arg.fs[arg.src] # NoFile
    /\ res.err = "dstDir is empty"

\* ---------------------------------------------------------------------
\* C14: dedup identity
\* ---------------------------------------------------------------------
\* C14: two key texts with the same body and timestamps of the same
\* supported form that differ in their digits have the same normalized
\* string and the same fingerprint; two key texts with different bodies have
\* different normalized strings.
C14_DedupIdentity ==
    res.fn = "NormalizeText" =>
        /\ arg.body1 = arg.body2 => (res.n1 = res.n2 /\ res.h1 = res.h2)
        /\ arg.body1 # arg.body2 => res.n1 # res.n2

\* ---------------------------------------------------------------------
\* C15: the structured-data encoding
\* ---------------------------------------------------------------------
\* the position of a key in a list of keys, 0 when it is not in it
IndexIn(keys, k) ==
    IF \E i \in DOMAIN keys : keys[i] = k
    THEN CHOOSE i \in DOMAIN keys : keys[i] = k
    ELSE 0

\* C15: the encoding of (id, kv) carries the id, "cndp" for the empty id; it
\* has one parameter for each key of kv whose value is not empty or blank
\* and no other parameter, none twice; keys of the preferred list come first,
\* in the order of that list, the others after them in ascending order.
C15_StructuredDataOrder ==
    res.fn = "buildStructuredData" =>
        LET sd == res.sd
            n == Len(sd.params)
            key(i) == sd.params[i].k
            pref(k) == IndexIn(preferredOrder, k)
            extra(k) == IndexIn(SortedExtraKeys, k)
        IN  /\ sd.id = (IF arg.id = "" THEN "cndp" ELSE arg.id)
            /\ SDKeys(sd) = {k \in DOMAIN arg.kv : ~Blank(arg.kv[k])}
            /\ \A i \in 1..n : sd.params[i].v = escapeSDParam(arg.kv[key(i)])
            /\ \A i, j \in 1..n : i < j =>
                  /\ key(i) # key(j)
                  /\ pref(key(j)) # 0 => (pref(key(i)) # 0 /\ pref(key(i)) < pref(key(j)))
                  /\ (pref(key(i)) = 0 /\ pref(key(j)) = 0) =>
                        extra(key(i)) < extra(key(j))

\* an encoding with the default id of a map that has preferred keys given
\* out of order, a blank and an empty value and two other keys
C15_Witness ==
    /\ res.fn = "buildStructuredData" /\ arg.id = "" /\ res.sd.id = "cndp"
    /\ DOMAIN arg.kv = SDKeyUniverse
    /\ arg.kv["env"] = << >> /\ arg.kv["deadman"] = << " " >>
    /\ [i \in DOMAIN res.sd.params |-> res.sd.params[i].k]
           = << "job", "cccc", "aaa", "zzz" >>

\* ---------------------------------------------------------------------
\* C16: tagging
\* ---------------------------------------------------------------------
\* the positions of the codes that, trimmed and upper-cased, are not empty
\* and occur in the upper-cased text
Hits(text, codes) ==
    {i \in DOMAIN codes :
        /\ ToUpper(TrimSpace(codes[i])) # << >>
        /\ Contains(ToUpper(text), ToUpper(TrimSpace(codes[i])))}

\* C16: the tag of an event is "none" when the code list is empty; otherwise
\* it is the first code of the list, trimmed and upper-cased, that occurs in
\* the upper-cased key text, and "none" when no code occurs.  The enabled
\* flag has no part in it.
C16_TagFromCodeList ==
    res.fn = "ExtractCCCC" =>
        LET codes == arg.cfg.CCCCCodes
            hits == Hits(arg.text, codes)
        IN  res.tag = IF codes = << >> \/ hits = {} THEN NoneTag
                      ELSE ToUpper(TrimSpace(
                              codes[CHOOSE i \in hits : \A j \in hits : i <= j]))

\* the flag is off, the list has two codes that both occur in the text, the
\* one that is first in the list is the tag although it occurs later in the
\* text
C16_Witness ==
    /\ res.fn = "ExtractCCCC" /\ ~arg.cfg.CCCCEnabled
    /\ arg.cfg.CCCCCodes = << ZBBB, ZGGG >>
    /\ Contains(arg.text, ZGGG \o << " " >> \o ZBBB)
    /\ res.tag = ZBBB

\* the flag is on and the list is empty: "none" although the text has a code
C16_WitnessEmptyList ==
    /\ res.fn = "ExtractCCCC" /\ arg.cfg.CCCCEnabled /\ arg.cfg.CCCCCodes = << >>
    /\ Contains(arg.text, ZGGG)
    /\ res.tag = NoneTag

\* ---------------------------------------------------------------------
\* C17: the alert level
\* ---------------------------------------------------------------------
\* the fields among status, level, severity the item has
LevelFields(item) ==
    IF item.isMap THEN {"status", "level", "severity"} \cap DOMAIN item.fields ELSE {}

\* C17: when the item has one of the fields status, level, severity, the
\* level is that of the first of them it has, in this order: warning for
\* warn, warning, 1; critical for error, critical, 2 to 5; unknown for any
\* other value (values compared in lower case, without surrounding space).
\* When it has none of them the level is that of the file extension: warning
\* for .warn, critical for .alarm, unknown otherwise.
C17_AlertLevelSource ==
    res.fn = "ExtractAlertLevel" =>
        LET have == LevelFields(arg.item)
            first == IF "status" \in have THEN "status"
                     ELSE IF "level" \in have THEN "level" ELSE "severity"
            word == ToLower(TrimSpace(Sprint(arg.item.fields[first])))
            ext == ToLower(Ext(arg.path))
        IN  IF have # {}
            THEN res.level =
                    IF word \in WarningWords THEN "warning"
                    ELSE IF word \in CriticalWords THEN "critical"
                    ELSE "unknown"
            ELSE res.level =
                    IF ext = << ".", "w", "a", "r", "n" >> THEN "warning"
                    ELSE IF ext = << ".", "a", "l", "a", "r", "m" >> THEN "critical"
                    ELSE "unknown"

\* an object whose status is not a known word and whose level field says
\* critical, in a .warn file: the level is unknown, neither that of the
\* second field nor that of the extension
C17_Witness ==
    /\ res.fn = "ExtractAlertLevel"
    /\ {"status", "level"} \subseteq LevelFields(arg.item)
    /\ arg.item.fields["status"] = Str(<< "i", "n", "f", "o" >>)
    /\ arg.item.fields["level"] = Str(<< "c", "r", "i", "t", "i", "c", "a", "l" >>)
    /\ LevelOfExt(arg.path) = "warning"
    /\ res.level = "unknown"

\* an object without any of the fields in a .alarm file: critical
C17_WitnessFallback ==
    /\ res.fn = "ExtractAlertLevel" /\ arg.item.isMap /\ LevelFields(arg.item) = {}
    /\ LevelOfExt(arg.path) = "critical"
    /\ res.level = "critical"

\* ---------------------------------------------------------------------
\* C18: no error is dropped
\* ---------------------------------------------------------------------
\* some row of a ledger, in any store file, carries an error text for `path`
LedgerErrorFor(path) ==
    \E k \in DOMAIN dbs :
        \/ \E i \in DOMAIN dbs[k].files :
              dbs[k].files[i].path = path /\ dbs[k].files[i].last_error # ""
        \/ \E i \in DOMAIN dbs[k].events :
              dbs[k].events[i].source_path = path /\ dbs[k].events[i].send_error # ""

\* the failures whose step writes no row: the read of a file, its archive
\* transaction
UnwrittenKinds == {"read", "tx"}

\* C18: when RunOnce has returned and the read or the archive transaction
\* of a file failed in the cycle, RunOnce's result is an error (the
\* heartbeat's status is "error") or a ledger row of that file carries an
\* error text.
C18_NoErrorDropped ==
    pc = "done" =>
        \A f \in faults :
            f[1] \in UnwrittenKinds => (ret # "" \/ LedgerErrorFor(f[2]))

\* ---------------------------------------------------------------------
\* C19: a failed archive transaction
\* ---------------------------------------------------------------------
\* the archive transaction of the file at p fails in this step
TxFails(p) == << "tx", p >> \in faults' \ faults

\* the step in which the archive transaction of a file fails adds no row to
\* either ledger, deletes no file (the file stays, or it is in the error
\* directory) and goes on with the next file of the cycle
C19_FileStops ==
    [][\A p \in AllPaths :
          TxFails(p) =>
              /\ dbs'[dbKey].files = dbs[dbKey].files
              /\ dbs'[dbKey].events = dbs[dbKey].events
              /\ \/ fs'[p] = fs[p]
                 \/ \E n \in DOMAIN errdir' \ DOMAIN errdir : errdir'[n] = fs[p]
              /\ pc' = "inputs" /\ todo' = Tail(todo)
      ]_vars

\* C19: when the archive transaction of a file fails, the ledgers get no row
\* of it and the file is not deleted, the cycle goes on with the next file,
\* and RunOnce returns an error.
C19_TxFailureSurfaced ==
    /\ C19_FileStops
    /\ [](pc = "done" => \A p \in AllPaths : << "tx", p >> \in faults => ret # "")

\* ---------------------------------------------------------------------
\* C20: deletion only when enabled
\* ---------------------------------------------------------------------
\* a step of a cycle deletes the source file at p: the file is gone and it
\* was not moved to the error directory
CycleDeletes(p) ==
    /\ pc # "idle"
    /\ fs[p] # NoFile /\ fs'[p] = NoFile
    /\ errdir' = errdir

\* C20: a Runner configured with delete-after-send false deletes no source
\* file in any cycle, neither in the per-file step nor in finalize, whatever
\* the send outcomes.
C20_NoDeletionWhenDisabled ==
    [][~given.DeleteAfterSend => \A p \in AllPaths : ~CycleDeletes(p)]_vars

\* ---------------------------------------------------------------------
\* C21: a failed removal of a fully sent file
\* ---------------------------------------------------------------------
\* os.Remove of the file at p fails in this step
RemoveFails(p) == << "remove", p >> \in faults' \ faults

\* the file rows of the ledger, over every store file
LedgerFiles == UNION {{dbs[k].files[f] : f \in DOMAIN dbs[k].files} : k \in DOMAIN dbs}

\* the step in which the removal of a file fails writes the failure to the
\* last error of a row of that path, leaves the row deleted = false, and does
\* not end the cycle
C21_FailureRecorded ==
    [][\A p \in AllPaths :
          RemoveFails(p) =>
              /\ \E f \in DOMAIN dbs'[dbKey].files :
                    /\ dbs'[dbKey].files[f].path = p
                    /\ dbs'[dbKey].files[f].last_error = "delete failed"
                    /\ ~dbs'[dbKey].files[f].deleted
              /\ pc' = pc /\ ret' = ret
      ]_vars

\* a file row is deleted with a deletion timestamp, and with an empty last
\* error when it was the removal by the Runner that succeeded
C21_DeletedRows ==
    \A pf \in LedgerFiles :
        pf.deleted => /\ pf.deleted_at # ZeroTime
                      /\ pf.last_error \in {"", "file missing", "moved to error_dir"}

\* at the end of a non-replay cycle that returned no error and in which no
\* event count and no row update of the file failed, a file row that still
\* carries a removal failure had its removal retried (and failed) in the cycle
C21_RetriedEveryCycle ==
    (pc = "done" /\ ret = "" /\ cfg.ReplayFrom = ZeroTime) =>
        \A pf \in LedgerFiles :
            (/\ pf.last_error = "delete failed"
             /\ << "count", pf.path >> \notin faults
             /\ << "update", pf.path >> \notin faults)
                => ~pf.deleted /\ << "remove", pf.path >> \in faults

\* C21: a failed removal of a fully sent file is written to the row's last
\* error, the row stays deleted = false and the cycle goes on; finalize
\* retries the removal in every following cycle until it succeeds, and then
\* the row is deleted = true with a deletion timestamp and no last error.
C21_RemovalRetriedUntilDone ==
    /\ C21_FailureRecorded
    /\ [](C21_DeletedRows)
    /\ [](C21_RetriedEveryCycle)

\* ---------------------------------------------------------------------
\* C22: what finalize examines and writes
\* ---------------------------------------------------------------------
\* the ids of the file rows of store `db` that are not all_sent or not deleted
OpenRows(db) == {i \in DOMAIN db.files : ~db.files[i].all_sent \/ ~db.files[i].deleted}

\* the step is the query of finalizeFiles
QueriesFinalize == pc = "resend" /\ pc' = "finalize"

\* the step is one iteration of finalizeFiles, over the row at the head of fq
ExaminesRow == pc = "finalize" /\ fq # << >> /\ fq' = Tail(fq)

\* the counts of one iteration: the events of the row, and the sent ones
TotalOf(db, pf) == Cardinality(EventIds(db, pf.path, pf.sha256))

SentOf(db, pf) ==
    Cardinality({i \in EventIds(db, pf.path, pf.sha256) : db.events[i].sent_syslog})

\* no count, removal or row update of the file at `path` has failed by the
\* end of the step
NoFinalizeFault(path) == faults' \cap FinalizeFaults(path) = {}

\* the rows finalize queries are the rows of the open store that are not
\* all_sent or not deleted, each examined once, in id order
C22_ExaminedRows ==
    QueriesFinalize =>
        /\ {fq'[i].id : i \in DOMAIN fq'} = OpenRows(dbs[dbKey])
        /\ \A i \in DOMAIN fq' : fq'[i].pf = dbs[dbKey].files[fq'[i].id]
        /\ \A i, j \in DOMAIN fq' : i < j => fq'[i].id < fq'[j].id

\* one iteration writes at most the examined row; with counts that do not
\* fail and at least one event, the row is all_sent afterwards exactly
\* when sent = total, and then an earlier last error is cleared; a row that
\* is not fully sent is left as it was
C22_AllSentWhenCountsEqual ==
    ExaminesRow =>
        LET id == Head(fq).id
            pf == Head(fq).pf
            db == dbs[dbKey]
            row == dbs'[dbKey].files[id]
        IN  /\ dbs'[dbKey].events = db.events
            /\ DOMAIN dbs'[dbKey].files = DOMAIN db.files
            /\ \A i \in DOMAIN db.files : i # id => dbs'[dbKey].files[i] = db.files[i]
            /\ (NoFinalizeFault(pf.path) /\ TotalOf(db, pf) > 0) =>
                  /\ row.all_sent <=> (SentOf(db, pf) = TotalOf(db, pf))
                  /\ row.all_sent => row.last_error \in {"", "file missing"}
                  /\ ~row.all_sent => row = db.files[id]

\* a fully sent row that is not deleted and whose file is missing is marked
\* deleted with the note "file missing"; nothing fails and the cycle goes on
C22_MissingFileMarked ==
    ExaminesRow =>
        LET id == Head(fq).id
            pf == Head(fq).pf
            db == dbs[dbKey]
            row == dbs'[dbKey].files[id]
        IN  (/\ << "count", pf.path >> \notin faults'
             /\ TotalOf(db, pf) > 0 /\ SentOf(db, pf) = TotalOf(db, pf)
             /\ ~pf.deleted /\ fs[pf.path] = NoFile)
                => /\ row.deleted /\ row.deleted_at = clock
                   /\ row.last_error = "file missing"
                   /\ faults' = faults /\ pc' = pc /\ ret' = ret /\ fs' = fs

ResendsHead == pc = "resend" /\ pc' = "resend" /\ pending # << >> /\ pending' = Tail(pending)

\* the step is the query of resendPending
QueriesResend == pc = "inputs" /\ pc' = "resend"

FlagsKept(k) ==
    /\ k \in DOMAIN dbs'
    /\ Len(dbs'[k].events) >= Len(dbs[k].events)
    /\ Len(dbs'[k].files) >= Len(dbs[k].files)
    /\ \A e \in DOMAIN dbs[k].events :
          /\ dbs[k].events[e].sent_syslog => dbs'[k].events[e].sent_syslog
          /\ dbs[k].events[e].sent_at # ZeroTime => dbs'[k].events[e].sent_at # ZeroTime
    /\ \A f \in DOMAIN dbs[k].files :
          /\ dbs[k].files[f].all_sent => dbs'[k].files[f].all_sent
          /\ dbs[k].files[f].deleted => dbs'[k].files[f].deleted

\* C24: an event row with sent = true never returns to sent = false and is
\* never selected for resend again, its sent_at is never cleared; a file row
\* with all_sent = true or deleted = true keeps that flag.
C24_FlagsMonotonic ==
    [][/\ \A k \in DOMAIN dbs : FlagsKept(k)
       /\ QueriesResend =>
             \A i \in DOMAIN pending' : ~dbs[dbKey].events[pending'[i].id].sent_syslog
       /\ ResendsHead => ~dbs[dbKey].events[Head(pending).id].sent_syslog
      ]_vars

\* a second cycle whose resend step retried an unsent event and passed over
\* an event sent in the first cycle
C24_Witness ==
    /\ runs = 2 /\ pc = "finalize"
    /\ \E i \in DOMAIN calls : calls[i].by = "resendPending"
    /\ \E e \in DOMAIN dbs[dbKey].events :
          /\ dbs[dbKey].events[e].sent_syslog
          /\ dbs[dbKey].events[e].sent_at # ZeroTime
          /\ \A i \in DOMAIN calls : ~CallIsFor(calls[i], dbs[dbKey].events[e])

\* ---------------------------------------------------------------------
\* C25: the overall deadline
\* ---------------------------------------------------------------------
\* the step is a deadline check that saw the deadline exceeded: RunOnce
\* returns the timeout error from where it was
TimesOut == pc # "done" /\ pc' = "done" /\ ret' = "timeout exceeded"

\* the sends of events in a call log (not the heartbeat)
EventSends(log) == SelectSeq(log, LAMBDA call : call.by # "sendDeadman")

\* C25: a deadline check that sees the deadline exceeded ends the cycle:
\* the step ingests, resends, finalizes and replays nothing (no file, store
\* or counter changes, no event is sent), RunOnce returns a timeout error and
\* nothing of the cycle is left to do; without a configured deadline no step
\* returns a timeout error.
C25_DeadlineAborts ==
    [][/\ TimesOut =>
             /\ cfg.Timeout
             /\ pc \in {"inputs", "resend", "replay"}
             /\ fs' = fs /\ errdir' = errdir /\ dbs' = dbs
             /\ stats' = stats /\ faults' = faults
             /\ EventSends(calls') = EventSends(calls)
             /\ runErr' = "timeout exceeded"
             /\ todo' = << >> /\ pending' = << >> /\ fq' = << >>
             /\ rdbs' = << >> /\ revs' = << >>
       /\ pc = "done" =>
             /\ pc' = "idle"
             /\ fs' = fs /\ errdir' = errdir /\ dbs' = dbs
       /\ ~cfg.Timeout => ret' # "timeout exceeded"
      ]_vars

\* a cycle cut by the deadline between ingestion and resend: the event whose
\* first send failed was not retried, its file row was not finalized
C25_Witness ==
    /\ pc = "done" /\ ret = "timeout exceeded" /\ cfg.Timeout
    /\ \E e \in DOMAIN dbs[dbKey].events :
          /\ ~dbs[dbKey].events[e].sent_syslog
          /\ CallsFor("archiveAndMarkFile", FALSE, dbs[dbKey].events[e]) # {}
          /\ CallsFor("resendPending", TRUE, dbs[dbKey].events[e]) = {}
          /\ CallsFor("resendPending", FALSE, dbs[dbKey].events[e]) = {}

\* ---------------------------------------------------------------------
\* C26: the timeout of a send
\* ---------------------------------------------------------------------
\* the smaller of two durations
Min(a, b) == IF a < b THEN a ELSE b

\* a send was made with a timeout; `arg` holds the deadline and the instant
Sent == res # NoArg /\ res.fn = "send"

\* the time left to the deadline at the send
Remaining == arg.deadline - arg.now

\* the part of C26 that does not depend on the deadline having passed: the
\* send is timed, the timeout is positive, it is the ceiling without a
\* deadline and the smaller of ceiling and remainder before the deadline
TimeoutWithinCeiling ==
    /\ res.send.timed /\ res.send.timeout > 0
    /\ arg.deadline = ZeroTime => res.send.timeout = SendCeiling
    /\ (arg.deadline # ZeroTime /\ Remaining > 0) =>
          res.send.timeout = Min(SendCeiling, Remaining)

\* C26 as stated: every send gets the minimum of the 3-second ceiling and
\* the time remaining to the deadline (the ceiling without a deadline), the
\* timeout is strictly positive, and a send after the deadline is issued with
\* a timeout below one millisecond.
C26_SendTimeout_Original ==
    Sent =>
        /\ TimeoutWithinCeiling
        /\ (arg.deadline # ZeroTime /\ Remaining <= 0) => res.send.timeout < Millisecond

\* C26 amended: the same, with a send after the deadline issued with a
\* timeout of exactly one millisecond.
C26_SendTimeout ==
    Sent =>
        /\ TimeoutWithinCeiling
        /\ (arg.deadline # ZeroTime /\ Remaining <= 0) => res.send.timeout = Millisecond

\* the heartbeat sent after the deadline has passed
C26_Witness ==
    /\ Sent /\ arg.site = "sendDeadman"
    /\ arg.deadline # ZeroTime /\ Remaining < 0
    /\ res.send.timed /\ res.send.timeout = Millisecond

\* ---------------------------------------------------------------------
\* C27: store rotation at the start of a cycle
\* ---------------------------------------------------------------------
\* the step is the start of RunOnce
StartsCycle == pc = "idle" /\ pc' # "idle"

\* the Runner uses the single static store path
StaticStore == Blank(Txt(cfg.DBFolder))

\* C27: with rotating stores the start of a cycle leaves the store of the
\* current period open (opened or created, the other store files untouched)
\* or fails before any ledger access; after the start the open store does
\* not change and every ledger write of the cycle goes to it, even when the
\* period changes during the cycle; with the static path the open store
\* never changes.
C27_RotationAtCycleStart ==
    [][/\ (StartsCycle /\ ~StaticStore) =>
             /\ \/ dbKey' = PeriodKey(clock) /\ dbKey' \in DOMAIN dbs' /\ pc' # "done"
                \/ dbKey' = NoKey /\ pc' = "done" /\ ret' = "open failed" /\ dbs' = dbs
             /\ \A k \in DOMAIN dbs : k \in DOMAIN dbs' /\ dbs'[k] = dbs[k]
             /\ \A k \in DOMAIN dbs' \ DOMAIN dbs : dbs'[k] = EmptyStore
       /\ pc # "idle" =>
             /\ dbKey' = dbKey /\ DOMAIN dbs' = DOMAIN dbs
             /\ \A k \in DOMAIN dbs : k # dbKey => dbs'[k] = dbs[k]
       /\ StaticStore => dbKey' = dbKey /\ dbKey = StaticKey /\ DOMAIN dbs' = {StaticKey}
      ]_vars

\* a rotating Runner in a cycle that started in one period and archived
\* a file into that period's store after the next period had begun
C27_Witness ==
    /\ ~StaticStore /\ pc = "finalize"
    /\ dbKey # PeriodKey(clock)
    /\ \E e \in DOMAIN dbs[dbKey].events :
          PeriodKey(dbs[dbKey].events[e].archived_at) # dbKey
    /\ \A k \in DOMAIN dbs : k # dbKey => dbs[k].events = << >>

\* ---------------------------------------------------------------------
\* C28: unsent events across a rollover
\* ---------------------------------------------------------------------
\* the store files of earlier periods, once the store has rolled over
EarlierStores == {k \in DOMAIN dbs : dbKey # NoKey /\ k < dbKey}

\* C28: at the end of a non-replay cycle that ran after a rollover, went
\* through the resend step and returned no error, every event still unsent
\* in the store of an earlier period had a send attempt in the cycle.
C28_RetriedAfterRollover ==
    (pc = "done" /\ cfg.ReplayFrom = ZeroTime /\ ret = "") =>
        \A k \in EarlierStores : \A e \in DOMAIN dbs[k].events :
            ~dbs[k].events[e].sent_syslog
                => Attempts(dbs[k].events[e]) > 0

\* ---------------------------------------------------------------------
\* C29: what a replay sends
\* ---------------------------------------------------------------------
\* the store files of the periods from that of ReplayFrom to the current one
ReplayedStores ==
    {k \in DOMAIN dbs : k >= PeriodKey(cfg.ReplayFrom) /\ k <= PeriodKey(clock)}

\* the events a replay has to send: store by store in ascending period, in a
\* store by ascending id, those archived at or after ReplayFrom
RECURSIVE ReplayedFrom(_)
ReplayedFrom(S) ==
    IF S = {} THEN << >>
    ELSE LET k == CHOOSE x \in S : \A y \in S : x <= y
         IN  SelectSeq(dbs[k].events, LAMBDA ev : ev.archived_at >= cfg.ReplayFrom)
                \o ReplayedFrom(S \ {k})

\* the number of sends in a call log with result ok
CountOf(log, ok) == Len(SelectSeq(log, LAMBDA call : call.ok = ok))

\* C29: during and after a replay from T the sends made so far are, in
\* order, one per event of the store files of the periods from that of T
\* to the current one with archived_at >= T, sent or not; the counters
\* count the successes and the failures, a failure does not stop the scan,
\* and a replay that returns no error has sent every such event.
C29_ReplaySends ==
    (cfg.ReplayFrom # ZeroTime /\ pc \in {"replay", "done"}) =>
        LET expected == ReplayedFrom(ReplayedStores)
            sends == EventSends(calls)
        IN  /\ Len(sends) <= Len(expected)
            /\ \A i \in DOMAIN sends :
                  sends[i].by = "replayFrom" /\ CallIsFor(sends[i], expected[i])
            /\ stats.EventsReplayOK = CountOf(sends, TRUE)
            /\ stats.EventsReplayErr = CountOf(sends, FALSE)
            /\ (pc = "done" /\ ret = "") => Len(sends) = Len(expected)

\* a replay over three store files that skipped an event archived before T,
\* sent events already sent and events never sent, had a failed send, and
\* went on to the end
C29_Witness ==
    /\ pc = "done" /\ ret = "" /\ cfg.ReplayFrom = 3
    /\ DOMAIN dbs = 0..2
    /\ Len(dbs[1].events) = 3 /\ Len(dbs[2].events) = 1
    /\ Len(calls) = 2
    /\ ~calls[1].ok /\ calls[2].ok
    /\ calls[1].source = PathOf(2) /\ calls[2].source = PathOf(1)


\* ---------------------------------------------------------------------
\* C30  Ledger keys and append-only
\* ---------------------------------------------------------------------
FileKey(f) == << f.path, f.sha256 >>

EventKey(e) == << e.source_path, e.file_sha256, e.event_index >>

\* the number of events the archive of a file with this content writes
EventsOf(sha) == IF Decodable(sha) THEN Elements(sha) ELSE 1

\* within one store: one file row per (path, digest), one event row per
\* (path, digest, index), and the events of a file row carry 0..n-1
KeysUnique(db) ==
    /\ \A i, j \in DOMAIN db.files :
          FileKey(db.files[i]) = FileKey(db.files[j]) => i = j
    /\ \A i, j \in DOMAIN db.events :
          EventKey(db.events[i]) = EventKey(db.events[j]) => i = j
    /\ \A i \in DOMAIN db.files :
          LET ids == EventIds(db, db.files[i].path, db.files[i].sha256)
          IN  /\ Cardinality(ids) = EventsOf(db.files[i].sha256)
              /\ {db.events[e].event_index : e \in ids}
                    = 0..(EventsOf(db.files[i].sha256) - 1)

\* a step keeps every row of the store under its key, and a file row it
\* adds is for a (path, digest) the store had neither a file row nor an
\* event for, and comes with its events
RowsKept(old, new) ==
    /\ Len(new.files) >= Len(old.files)
    /\ Len(new.events) >= Len(old.events)
    /\ \A i \in DOMAIN old.files : FileKey(new.files[i]) = FileKey(old.files[i])
    /\ \A i \in DOMAIN old.events :
          /\ EventKey(new.events[i]) = EventKey(old.events[i])
          /\ new.events[i].event_json = old.events[i].event_json
          /\ new.events[i].archived_at = old.events[i].archived_at
    /\ \A i \in DOMAIN new.files \ DOMAIN old.files :
          /\ FileIds(old, new.files[i].path, new.files[i].sha256) = {}
          /\ EventIds(old, new.files[i].path, new.files[i].sha256) = {}
          /\ EventIds(new, new.files[i].path, new.files[i].sha256)
                \subseteq DOMAIN new.events \ DOMAIN old.events

AppendOnly ==
    \A k \in DOMAIN dbs : k \in DOMAIN dbs' /\ RowsKept(dbs[k], dbs'[k])

\* C30: in every store there is at most one file row per (path, digest) and
\* at most one event row per (path, digest, index), the events of a file of
\* n elements carry the indices 0..n-1; no step deletes or re-keys a file
\* row or an event row, and the row of a file replaced at the same path with
\* new bytes is added next to the rows of the old bytes, with new events.
C30_LedgerAppendOnly ==
    /\ [](\A k \in DOMAIN dbs : KeysUnique(dbs[k]))
    /\ [][AppendOnly]_vars

\* a store holds, for one path, the row of the old bytes and the row of the
\* two-element array that replaced them, each with all its events
C30_Witness ==
    \E k \in DOMAIN dbs : \E i, j \in DOMAIN dbs[k].files :
        /\ i < j
        /\ dbs[k].files[i].path = dbs[k].files[j].path
        /\ dbs[k].files[i].sha256 # dbs[k].files[j].sha256
        /\ dbs[k].files[j].sha256 = "ARR"
        /\ Cardinality(EventIds(dbs[k], dbs[k].files[i].path, dbs[k].files[i].sha256)) >= 1
        /\ Cardinality(EventIds(dbs[k], dbs[k].files[j].path, "ARR")) = 2

\* ---------------------------------------------------------------------
\* FlattenJSON (flatten.go).  A decoded JSON value is a string, a number,
\* an array, or a map; the items of a map are listed in the order in which
\* this run's `range` happens to visit them.
\* ---------------------------------------------------------------------
Arr(items) == [t |-> "arr", items |-> items]

Obj(items) == [t |-> "map", items |-> items]

DefaultMaxDepth == 16

DefaultMaxKeys == 5000

\* opts.MaxDepth <= 0 -> 16, opts.MaxKeys <= 0 -> 5000
FlattenDefaults(opts) ==
    [MaxDepth |-> IF opts.MaxDepth <= 0 THEN DefaultMaxDepth ELSE opts.MaxDepth,
     MaxKeys |-> IF opts.MaxKeys <= 0 THEN DefaultMaxKeys ELSE opts.MaxKeys]

\* out[key] = v
Put(out, key, v) ==
    [k \in DOMAIN out \cup {key} |-> IF k = key THEN v ELSE out[k]]

\* fmt.Sprintf("<max_depth:%d>", opts.MaxDepth)
DepthPlaceholder(n) == Str("<max_depth:" \o ToString(n) \o ">")

\* the key of the i-th child of a container under `prefix`
ChildKey(prefix, v, i) ==
    IF v.t = "map"
    THEN IF prefix # "" THEN prefix \o "." \o v.items[i][1] ELSE v.items[i][1]
    ELSE IF prefix # "" THEN prefix \o "[" \o ToString(i - 1) \o "]"
         ELSE ToString(i - 1)

ChildOf(v, i) == IF v.t = "map" THEN v.items[i][2] ELSE v.items[i]

RECURSIVE flattenInto(_, _, _, _, _)
RECURSIVE flattenChildren(_, _, _, _, _, _)
\* the two `for ... range v` loops, from the i-th child on
flattenChildren(out, prefix, v, i, depth, opts) ==
    IF i > Len(v.items) THEN out
    ELSE LET o1 == flattenInto(out, ChildKey(prefix, v, i), ChildOf(v, i),
                               depth + 1, opts)
         IN  IF Cardinality(DOMAIN o1) >= opts.MaxKeys THEN o1
             ELSE flattenChildren(o1, prefix, v, i + 1, depth, opts)

flattenInto(out, prefix, value, depth, opts) ==
    IF Cardinality(DOMAIN out) >= opts.MaxKeys THEN out
    ELSE IF depth > opts.MaxDepth
    THEN IF prefix # "" THEN Put(out, prefix, DepthPlaceholder(opts.MaxDepth))
         ELSE out
    ELSE IF value.t \in {"map", "arr"}
    THEN flattenChildren(out, prefix, value, 1, depth, opts)
    ELSE IF prefix = "" THEN Put(out, "value", value)
    ELSE Put(out, prefix, value)

FlattenJSON(value, opts) ==
    flattenInto(<< >>, "", value, 0, FlattenDefaults(opts))

\* The values flattened: scalars, and arrays and maps of up to two items
\* nested two deep, over the keys JSON allows (the empty key too).
JSONKeys == {"", "a"}

Scalars == {Num(1), Str("x")}

ItemLists(S) ==
    {<< >>} \cup {<< v >> : v \in S} \cup {<< v, w >> : v \in S, w \in S}

EntryLists(S) ==
    {<< >>} \cup {<< << k, v >> >> : k \in JSONKeys, v \in S}
            \cup {<< << k, v >>, << l, w >> >> :
                    k \in JSONKeys, l \in JSONKeys, v \in S, w \in S}

DistinctKeys(items) ==
    \A i, j \in DOMAIN items : items[i][1] = items[j][1] => i = j

Containers(S) ==
    {Arr(items) : items \in ItemLists(S)}
        \cup {Obj(items) : items \in {e \in EntryLists(S) : DistinctKeys(e)}}

Nested1 == Scalars \cup Containers(Scalars)

Nested2 == Scalars \cup Containers(Nested1)

FlattenOptions == [MaxDepth : {-1, 0, 1, 2}, MaxKeys : {-1, 0, 1, 2}]

FlattenInputs ==
    {[fn |-> "FlattenJSON", value |-> v, opts |-> o] :
        v \in Nested2, o \in FlattenOptions}

FlattenInit == AtRest /\ arg \in FlattenInputs /\ res = NoArg

\* flat := FlattenJSON(item, opts)
CallFlattenJSON ==
    /\ arg.fn = "FlattenJSON" /\ res = NoArg
    /\ res' = [fn |-> "FlattenJSON", flat |-> FlattenJSON(arg.value, arg.opts)]
    /\ UNCHANGED << arg, restVars >>

FlattenNext == CallFlattenJSON

SpecFlatten == FlattenInit /\ [][FlattenNext]_vars

\* ---------------------------------------------------------------------
\* C31  FlattenJSON
\* ---------------------------------------------------------------------
IsContainer(v) == v.t \in {"map", "arr"}

\* the path of a child: parent.key for a map, parent[index] for an array,
\* the bare key or index for a child of the top-level value
PathUnder(top, parent, v, i) ==
    IF v.t = "map"
    THEN IF top THEN v.items[i][1] ELSE parent \o "." \o v.items[i][1]
    ELSE IF top THEN ToString(i - 1) ELSE parent \o "[" \o ToString(i - 1) \o "]"

\* the leaves of a value: << path, scalar >>, with the placeholder for what
\* is nested deeper than maxDepth
RECURSIVE LeavesOf(_, _, _, _, _)
LeavesOf(top, path, v, depth, maxDepth) ==
    IF depth > maxDepth THEN {<< path, DepthPlaceholder(maxDepth) >>}
    ELSE IF IsContainer(v)
    THEN UNION {LeavesOf(FALSE, PathUnder(top, path, v, i), ChildOf(v, i),
                         depth + 1, maxDepth) : i \in DOMAIN v.items}
    ELSE {<< IF top THEN "value" ELSE path, v >>}

Called == res # NoArg /\ res.fn = "FlattenJSON"

MaxDepthOf(opts) == IF opts.MaxDepth <= 0 THEN 16 ELSE opts.MaxDepth

MaxKeysOf(opts) == IF opts.MaxKeys <= 0 THEN 5000 ELSE opts.MaxKeys

Entries(flat) == {<< k, flat[k] >> : k \in DOMAIN flat}

\* at most maxKeys entries, each one a leaf of the value under its path,
\* and all the leaves when fewer than maxKeys were emitted
FlattenedAsSpecified(value, opts, flat) ==
    LET leaves == LeavesOf(TRUE, "", value, 0, MaxDepthOf(opts))
    IN  /\ Cardinality(DOMAIN flat) <= MaxKeysOf(opts)
        /\ Entries(flat) \subseteq leaves
        /\ Cardinality(DOMAIN flat) < MaxKeysOf(opts) => Entries(flat) = leaves

RECURSIVE HasEmptyKey(_)
HasEmptyKey(v) ==
    /\ IsContainer(v)
    /\ \E i \in DOMAIN v.items :
          \/ v.t = "map" /\ v.items[i][1] = ""
          \/ HasEmptyKey(ChildOf(v, i))

\* C31: FlattenJSON returns at most maxKeys entries; maps project to
\* parent.key and arrays to parent[index] paths, a top-level scalar is
\* stored under "value", what is nested deeper than maxDepth is replaced by
\* the placeholder naming the bound, and non-positive options stand for
\* maxDepth = 16 and maxKeys = 5000.
C31_Flatten ==
    Called => FlattenedAsSpecified(arg.value, arg.opts, res.flat)

\* C31, for the values none of whose maps has an empty key
C31_FlattenNamedKeys ==
    Called /\ ~HasEmptyKey(arg.value)
        => FlattenedAsSpecified(arg.value, arg.opts, res.flat)

\* the key-count ceiling alone holds for every value
C31_AtMostMaxKeys ==
    Called => Cardinality(DOMAIN res.flat) <= MaxKeysOf(arg.opts)

\* a map with an empty key at the top level has been flattened
C31_EmptyKeyFlattened ==
    /\ Called
    /\ arg.value = Obj(<< << "", Num(1) >> >>)
    /\ arg.opts = [MaxDepth |-> 0, MaxKeys |-> 0]

\* ---------------------------------------------------------------------
\* escapeSDParam, character by character (runner_test.go 1841-1848): five
\* strings.ReplaceAll passes over the value, in the order of the source.
\* ---------------------------------------------------------------------
\* strings.ReplaceAll(s, old, new) for a one-character `old`
RECURSIVE ReplaceAll(_, _, _)
ReplaceAll(s, old, new) ==
    IF s = << >> THEN << >>
    ELSE (IF Head(s) = old THEN new ELSE << Head(s) >>)
            \o ReplaceAll(Tail(s), old, new)

\* an escaper that escapes the quotes before it doubles the backslashes
escapeSDParamQuotesFirst(v) ==
    LET v1 == ReplaceAll(v, "\"", << "\\", "\"" >>)
        v2 == ReplaceAll(v1, "\\", << "\\", "\\" >>)
        v3 == ReplaceAll(v2, "]", << "\\", "]" >>)
        v4 == ReplaceAll(v3, "\n", << " " >>)
    IN  ReplaceAll(v4, "\r", << " " >>)

escapeSDParamChars(v) ==
    LET v1 == ReplaceAll(v, "\\", << "\\", "\\" >>)
        v2 == ReplaceAll(v1, "\"", << "\\", "\"" >>)
        v3 == ReplaceAll(v2, "]", << "\\", "]" >>)
        v4 == ReplaceAll(v3, "\n", << " " >>)
    IN  ReplaceAll(v4, "\r", << " " >>)

MaxValueLen == 4

ValueChars == {"\\", "\"", "]", "\n", "\r", " ", "a"}

ParamValues == UNION {[1..n -> ValueChars] : n \in 0..MaxValueLen}

EscapeInputs == {[fn |-> "escapeSDParam", v |-> v] : v \in ParamValues}

EscapeInit == AtRest /\ arg \in EscapeInputs /\ res = NoArg

\* b.WriteString(escapeSDParam(v))
CallEscapeSDParam ==
    /\ arg.fn = "escapeSDParam" /\ res = NoArg
    /\ res' = [fn |-> "escapeSDParam", out |-> escapeSDParamChars(arg.v)]
    /\ UNCHANGED << arg, restVars >>

EscapeNext == CallEscapeSDParam

SpecEscape == EscapeInit /\ [][EscapeNext]_vars

\* ---------------------------------------------------------------------
\* C32  The escaped form of a value
\* ---------------------------------------------------------------------
\* read left to right as a reader of the record does: a backslash takes the
\* next character with it, which is a backslash, a quote or a bracket; no
\* other character is a quote, a bracket, a newline or a carriage return
RECURSIVE StaysInside(_)
StaysInside(s) ==
    IF s = << >> THEN TRUE
    ELSE IF Head(s) = "\\"
    THEN /\ Len(s) >= 2
         /\ s[2] \in {"\\", "\"", "]"}
         /\ StaysInside(Tail(Tail(s)))
    ELSE /\ Head(s) \notin {"\"", "]", "\n", "\r"}
         /\ StaysInside(Tail(s))

Escaped == res # NoArg /\ res.fn = "escapeSDParam"

\* C32: the escaped form of every value has no newline and no carriage
\* return, and no double quote or close bracket without an escaping
\* backslash before it, backslashes being doubled: read from the left, the
\* value never closes its quoted parameter or the record.
C32_EscapedStaysInside ==
    Escaped =>
        /\ \A i \in DOMAIN res.out : res.out[i] \notin {"\n", "\r"}
        /\ StaysInside(res.out)

\* a value with a backslash before a quote, a bracket and a newline has
\* been escaped
C32_Witness ==
    /\ Escaped
    /\ arg.v = << "\\", "\"", "]", "\n" >>
    /\ res.out = << "\\", "\\", "\\", "\"", "\\", "]", " " >>

\* ---------------------------------------------------------------------
\* Two Runner instances over one store and one input directory.  Each
\* instance runs ingestFile for the same path; the steps are the places
\* where ingestFile touches what the instances share: the check of the
\* ledger, the sends, the archive transaction, the removal.  `arg` holds
\* the frames of the two calls.
\* ---------------------------------------------------------------------
Instances == {1, 2}

Other(i) == IF i = 1 THEN 2 ELSE 1

SharedPath == PathOf(1)

Frame(pos, sha, events) == [pc |-> pos, sha |-> sha, events |-> events]

TwoInit ==
    /\ fs \in {[p \in AllPaths |-> IF p = SharedPath THEN c ELSE NoFile] :
                  c \in {"OBJ", "ARR"}}
    /\ errdir = << >>
    /\ clock = 1
    /\ given = CHOOSE c \in Configs : /\ c.DeleteAfterSend /\ ~c.Timeout
                                      /\ c.DeadmanToken = "" /\ c.ErrorDir = ""
    /\ cfg = NewRunnerCfg(given)
    /\ dbs = [k \in {PeriodKey(1)} |-> EmptyStore]
    /\ dbKey = PeriodKey(1)
    /\ pc = "idle"
    /\ todo = << >> /\ pending = << >> /\ fq = << >> /\ rdbs = << >> /\ revs = << >>
    /\ runErr = "" /\ ret = ""
    /\ stats = ZeroStats
    /\ calls = << >> /\ faults = {}
    /\ runs = 0 /\ writes = 0
    /\ arg = [fn |-> "ingestFile",
              inst |-> [i \in Instances |-> Frame("start", NoFile, << >>)],
              overlap |-> FALSE]
    /\ res = NoArg

twoVars ==
    << errdir, clock, given, cfg, dbKey, pc, todo, pending, fq, rdbs, revs,
       runErr, ret, stats, runs, writes, res >>

\* between its check of the ledger and its archive transaction
InFlight(i) == arg.inst[i].pc \in {"send", "commit"}

\* os.Stat, os.ReadFile, sha256, r.isAlreadyProcessed, r.toEvents
TwoCheck(i) ==
    /\ arg.fn = "ingestFile" /\ arg.inst[i].pc = "start"
    /\ IF fs[SharedPath] = NoFile
          \/ isAlreadyProcessed(dbs[dbKey], SharedPath, fs[SharedPath])
       THEN arg' = [arg EXCEPT !.inst[i].pc = "done"]
       ELSE arg' = [arg EXCEPT
                      !.inst[i] = Frame("send", fs[SharedPath],
                                     toEvents(SharedPath, fs[SharedPath], clock)),
                      !.overlap = @ \/ InFlight(Other(i))]
    /\ UNCHANGED << fs, dbs, calls, faults, twoVars >>

\* the send loop of archiveAndMarkFile
TwoSend(i) ==
    /\ arg.fn = "ingestFile" /\ arg.inst[i].pc = "send"
    /\ \E oks \in [1..2 -> BOOLEAN] :
          /\ \A j \in 1..2 : j > Len(arg.inst[i].events) => oks[j]
          /\ LET s == SendLoop(World, cfg, arg.inst[i].events, oks, clock, 1)
             IN  /\ calls' = s.w.calls
                 /\ arg' = [arg EXCEPT !.inst[i].pc = "commit",
                                       !.inst[i].events = s.events]
    /\ UNCHANGED << fs, dbs, faults, twoVars >>

\* r.db.Transaction: the unique index uniq_path_sha refuses a second file row
TwoCommit(i) ==
    /\ arg.fn = "ingestFile" /\ arg.inst[i].pc = "commit"
    /\ LET f == arg.inst[i]
           allSent == \A j \in DOMAIN f.events : f.events[j].sent_syslog
       IN  IF FileIds(dbs[dbKey], SharedPath, f.sha) # {}
           THEN /\ faults' = faults \cup {<< "tx", SharedPath >>}
                /\ arg' = [arg EXCEPT !.inst[i].pc = "done"]
                /\ UNCHANGED dbs
           ELSE /\ dbs' = [dbs EXCEPT ![dbKey] =
                             ArchiveTx(@, f.events,
                                       ProcessedFile(SharedPath, f.sha, allSent))]
                /\ arg' = [arg EXCEPT !.inst[i].pc =
                             IF cfg.DeleteAfterSend /\ allSent THEN "delete"
                             ELSE "done"]
                /\ UNCHANGED faults
    /\ UNCHANGED << fs, calls, twoVars >>

\* r.tryDeleteProcessedFile(path, sha)
TwoDelete(i) ==
    /\ arg.fn = "ingestFile" /\ arg.inst[i].pc = "delete"
    /\ LET w == tryDeleteProcessedFile(World, SharedPath, arg.inst[i].sha,
                                       clock, TRUE, TRUE)
       IN  /\ fs' = w.fs
           /\ dbs' = [dbs EXCEPT ![dbKey] = w.db]
           /\ faults' = w.faults
    /\ arg' = [arg EXCEPT !.inst[i].pc = "done"]
    /\ UNCHANGED << calls, twoVars >>

TwoNext ==
    \E i \in Instances :
        \/ TwoCheck(i)
        \/ TwoSend(i)
        \/ TwoCommit(i)
        \/ TwoDelete(i)

SpecTwo == TwoInit /\ [][TwoNext]_vars

\* ---------------------------------------------------------------------
\* C33  Two instances over the same store and files
\* ---------------------------------------------------------------------
Delivers(i, j) ==
    /\ j \in DOMAIN arg.inst[i].events
    /\ arg.inst[i].events[j].sent_syslog

\* the same event of the file has been delivered by both instances
DeliveredByBoth ==
    /\ arg.fn = "ingestFile"
    /\ arg.inst[1].sha = arg.inst[2].sha
    /\ \E j \in 1..2 : Delivers(1, j) /\ Delivers(2, j)

\* the file is gone while an instance that read it has not archived it
RemovedBeforeArchived ==
    /\ arg.fn = "ingestFile"
    /\ fs[SharedPath] = NoFile
    /\ \E i \in Instances : InFlight(i)

\* C33: two instances whose ingests of the same file interleave over the
\* same store can deliver the file's events twice, or have the file removed
\* by one while the other has not archived it; instances whose ingests do
\* not interleave cannot.
C33_OnlyInterleavedViolate ==
    DeliveredByBoth \/ RemovedBeforeArchived => arg.overlap

\* both instances have delivered the same event of the file
C33_Witness == DeliveredByBoth /\ arg.overlap

\* one instance has removed the file, the other has sent but not archived
C33_WitnessRemoved == RemovedBeforeArchived /\ arg.overlap

\* ---------------------------------------------------------------------
\* C34  A fully sent file has only sent events
\* ---------------------------------------------------------------------
EventsOfRow(db, f) == {db.events[i] : i \in EventIds(db, f.path, f.sha256)}

\* C34: in every store, every event of a file row with all_sent = true
\* (same path and digest) has sent = true.
C34_AllSentMeansEverySent ==
    \A k \in DOMAIN dbs : \A i \in DOMAIN dbs[k].files :
        dbs[k].files[i].all_sent
            => \A e \in EventsOfRow(dbs[k], dbs[k].files[i]) : e.sent_syslog

\* a two-event file archived with a failed send is fully sent after a
\* resend, and its row says so
C34_Witness ==
    \E k \in DOMAIN dbs : \E i \in DOMAIN dbs[k].files :
        /\ dbs[k].files[i].all_sent
        /\ dbs[k].files[i].sha256 = "ARR"
        /\ Cardinality(EventIds(dbs[k], dbs[k].files[i].path, "ARR")) = 2
        /\ \E j \in DOMAIN calls :
              /\ calls[j].by = "resendPending"
              /\ calls[j].source = dbs[k].files[i].path
              /\ calls[j].ok

\* ---------------------------------------------------------------------
\* C35  A sent event has no send error and a sent_at
\* ---------------------------------------------------------------------
AllEvents == UNION {{dbs[k].events[i] : i \in DOMAIN dbs[k].events} : k \in DOMAIN dbs}

SentClean(e) == e.sent_syslog => e.send_error = "" /\ e.sent_at # ZeroTime

\* C35: in every store, every event row with sent = true has an empty send
\* error and a sent_at that is not null, the synthetic error events of
\* undecodable files included.
C35_SentHasNoError == \A e \in AllEvents : SentClean(e)

\* C35, for the events built from the elements of a decodable file
C35_DecodedSentHasNoError ==
    \A e \in AllEvents : Decodable(e.file_sha256) => SentClean(e)

\* every sent event has a sent_at, the synthetic ones too
C35_SentHasSentAt == \A e \in AllEvents : e.sent_syslog => e.sent_at # ZeroTime

\* ---------------------------------------------------------------------
\* C36  Idempotent ingestion across a rollover
\* ---------------------------------------------------------------------
ArchivedEarlier(p, key) ==
    /\ fs[p] # NoFile
    /\ \E k \in DOMAIN dbs : k < key /\ FileIds(dbs[k], p, fs[p]) # {}

RowsFor(d, k, p, sha) ==
    IF k \in DOMAIN d
    THEN << FileIds(d[k], p, sha), EventIds(d[k], p, sha) >>
    ELSE << {}, {} >>

\* C36: a file that has a file row in the store of an earlier period and is
\* still on disk with the same bytes is not ingested again after the
\* rollover: no step adds a file row or an event row for it to any store,
\* and no step delivers an event of it as a first-time delivery.
C36_NoReingestAfterRollover ==
    [][\A p \in Paths :
          (cfg.ReplayFrom = ZeroTime /\ ArchivedEarlier(p, dbKey'))
          => /\ \A k \in DOMAIN dbs' :
                   RowsFor(dbs', k, p, fs[p]) = RowsFor(dbs, k, p, fs[p])
             /\ \A i \in DOMAIN calls' :
                   (i > Len(calls) /\ calls'[i].by = "archiveAndMarkFile")
                   => calls'[i].source # p]_vars

\* a file has a row in the store of an earlier period and in the open store
C36_Reingested ==
    \E p \in Paths : \E k \in DOMAIN dbs :
        /\ fs[p] # NoFile /\ dbKey \in DOMAIN dbs /\ k < dbKey
        /\ FileIds(dbs[k], p, fs[p]) # {}
        /\ FileIds(dbs[dbKey], p, fs[p]) # {}

\* ---------------------------------------------------------------------
\* Runs in a zone with an offset to UTC: ensureDBForNow names the store
\* after the local month, replayFrom selects stores by the UTC months of
\* ReplayFrom and of now.
\* ---------------------------------------------------------------------
ZoneOffsets == {-1, 0, 1}

ZoneConfigs ==
    {c \in Configs : c.DeleteAfterSend /\ ~c.Timeout /\ c.DeadmanToken = "" /\ c.ErrorDir = ""}

ZoneInit ==
    /\ arg \in {[fn |-> "zone", offset |-> z] : z \in ZoneOffsets}
    /\ res = NoArg
    /\ fs \in {[p \in AllPaths |-> IF p = PathOf(1) THEN c ELSE NoFile] :
                  c \in {"OBJ", "ARR"}}
    /\ errdir = << >>
    /\ clock = 1
    /\ given \in ZoneConfigs
    /\ cfg = NewRunnerCfg(given)
    /\ dbs = [k \in {PeriodKey(Local(1))} |-> EmptyStore]
    /\ dbKey = PeriodKey(Local(1))
    /\ pc = "idle"
    /\ todo = << >> /\ pending = << >> /\ fq = << >> /\ rdbs = << >> /\ revs = << >>
    /\ runErr = "" /\ ret = ""
    /\ stats = ZeroStats
    /\ calls = << >> /\ faults = {}
    /\ runs = 0 /\ writes = 0

ZoneNext ==
    \/ Tick
    \/ \E t \in Times : SetReplayFrom(t)
    \/ StartRun
    \/ ExpandInputs
    \/ IngestInput
    \/ BeginResend
    \/ ResendOne
    \/ BeginFinalize
    \/ FinalizeOne
    \/ ReturnOK
    \/ ReplayOpen
    \/ ReplayOne
    \/ ReplayDone
    \/ Sleep

SpecZone == ZoneInit /\ [][ZoneNext]_vars

\* ---------------------------------------------------------------------
\* C37  The store's period key and replay's range
\* ---------------------------------------------------------------------
\* archived at a time t with ReplayFrom <= t <= now
ArchivedInRange(e) == cfg.ReplayFrom <= e.archived_at /\ e.archived_at <= clock

StartsReplay == pc = "idle" /\ pc' = "replay"

\* C37: the key of the store an event is archived in and the keys replay
\* selects are derived from the same clock in the same zone: when a replay
\* starts, every store holding an event archived at a time t with
\* ReplayFrom <= t <= now is among the stores selected, and a replay that
\* ends without error has sent every such event.
C37_ReplayCoversArchived ==
    /\ [][StartsReplay =>
            \A k \in DOMAIN dbs' : \A i \in DOMAIN dbs'[k].events :
                ArchivedInRange(dbs'[k].events[i])
                    => \E j \in DOMAIN rdbs' : rdbs'[j] = k]_vars
    /\ []((cfg.ReplayFrom # ZeroTime /\ pc = "done" /\ ret = "") =>
            \A k \in DOMAIN dbs : \A i \in DOMAIN dbs[k].events :
                ArchivedInRange(dbs[k].events[i])
                    => \E j \in DOMAIN calls :
                          /\ calls[j].by = "replayFrom"
                          /\ CallIsFor(calls[j], dbs[k].events[i]))

\* C37, for the runs in the zone UTC
C37_ReplayCoversArchivedUTC ==
    /\ [][StartsReplay /\ ZoneOffset = 0 =>
            \A k \in DOMAIN dbs' : \A i \in DOMAIN dbs'[k].events :
                ArchivedInRange(dbs'[k].events[i])
                    => \E j \in DOMAIN rdbs' : rdbs'[j] = k]_vars
    /\ []((ZoneOffset = 0 /\ cfg.ReplayFrom # ZeroTime /\ pc = "done" /\ ret = "") =>
            \A k \in DOMAIN dbs : \A i \in DOMAIN dbs[k].events :
                ArchivedInRange(dbs[k].events[i])
                    => \E j \in DOMAIN calls :
                          /\ calls[j].by = "replayFrom"
                          /\ CallIsFor(calls[j], dbs[k].events[i]))

\* ---------------------------------------------------------------------
\* C38  A file that reappears with bytes already sent and deleted
\* ---------------------------------------------------------------------
\* the file at p has the bytes of a file row of store k that is fully sent
\* and deleted
SettledIn(k, p) ==
    /\ fs[p] # NoFile
    /\ k \in DOMAIN dbs
    /\ \E i \in FileIds(dbs[k], p, fs[p]) :
          dbs[k].files[i].all_sent /\ dbs[k].files[i].deleted

\* a step of a non-replay cycle that leaves the file at p alone: no row for
\* it, no send for it, no removal
LeftAlone(p) ==
    /\ \A k \in DOMAIN dbs' : RowsFor(dbs', k, p, fs[p]) = RowsFor(dbs, k, p, fs[p])
    /\ \A i \in DOMAIN calls' :
          (i > Len(calls) /\ calls'[i].by \in NonReplaySends)
          => ~\E k \in DOMAIN dbs' : \E e \in EventIds(dbs'[k], p, fs[p]) :
                 CallIsFor(calls'[i], dbs'[k].events[e])
    /\ fs'[p] = fs[p]

\* a step of a non-replay cycle, the file at p being readable
ReadableStep(p) ==
    /\ writes' = writes /\ cfg.ReplayFrom = ZeroTime
    /\ << "read", p >> \notin faults'

\* C38: when a file is back at a path with exactly the bytes of a (path,
\* digest) whose file row is all_sent and deleted, no step of any later
\* cycle creates a row for it, sends anything for it, or removes it.
C38_ReappearedFileStays ==
    [][\A p \in Paths :
          (ReadableStep(p) /\ \E k \in DOMAIN dbs : SettledIn(k, p)) => LeftAlone(p)]_vars

\* C38, while the store that holds the row is the open one
C38_ReappearedFileStaysInPeriod ==
    [][\A p \in Paths : (ReadableStep(p) /\ SettledIn(dbKey', p)) => LeftAlone(p)]_vars

\* a file is back with the bytes of a sent and deleted row of the open
\* store and a cycle has run over it to its end
C38_ReappearedSeen ==
    \E p \in Paths : SettledIn(dbKey, p) /\ pc = "done" /\ ret = "" /\ writes > 0

\* ---------------------------------------------------------------------
\* C39  The counters of a cycle
\* ---------------------------------------------------------------------
RECURSIVE SumOver(_, _)
SumOver(S, f) ==
    IF S = {} THEN 0
    ELSE LET k == CHOOSE x \in S : TRUE
         IN  f[k] + SumOver(S \ {k}, f)

FileRows(d) == SumOver(DOMAIN d, [k \in DOMAIN d |-> Len(d[k].files)])

EventRows(d) == SumOver(DOMAIN d, [k \in DOMAIN d |-> Len(d[k].events)])

\* send attempts other than the heartbeat
Attempted(log) == Len(SelectSeq(log, LAMBDA c : c.by \in NonReplaySends))

\* a step of a non-replay cycle (Sleep starts the counters of the next one)
CountedStep == cfg.ReplayFrom = ZeroTime /\ pc # "done"

SendsCounted ==
    (stats'.EventsSentOK + stats'.EventsSentErr)
        - (stats.EventsSentOK + stats.EventsSentErr)
    = Attempted(calls') - Attempted(calls)

FilesCounted ==
    stats'.FilesIngested - stats.FilesIngested = FileRows(dbs') - FileRows(dbs)

EventsCounted ==
    stats'.EventsNew - stats.EventsNew = EventRows(dbs') - EventRows(dbs)

\* the heartbeat of the cycle carries the counters of the cycle
HeartbeatReports ==
    \A i \in DOMAIN calls : calls[i].by = "sendDeadman" => calls[i].stats = stats

\* C39: in a non-replay cycle the counters the heartbeat reports agree with
\* what the cycle did: events_sent_ok + events_sent_err is the number of
\* send attempts other than the heartbeat, files_ingested the number of
\* file rows committed, events_new the number of event rows committed.
C39_CountersAgree ==
    /\ [][CountedStep => SendsCounted /\ FilesCounted /\ EventsCounted]_vars
    /\ [](HeartbeatReports)

\* C39 without events_new: the send and file counters agree in every cycle
C39_SendAndFileCountersAgree ==
    /\ [][CountedStep => SendsCounted /\ FilesCounted]_vars
    /\ [](HeartbeatReports)

\* events_new agrees in the steps whose archive transaction does not fail
C39_EventsNewWhenCommitted ==
    [][CountedStep /\ ~(\E p \in Paths : TxFails(p)) => EventsCounted]_vars

\* first sends of events built from newly seen files
Built(log) == Len(SelectSeq(log, LAMBDA c : c.by = "archiveAndMarkFile"))

EventsBuiltCounted == stats'.EventsNew - stats.EventsNew = Built(calls') - Built(calls)

\* C39, amended: in a non-replay cycle events_sent_ok + events_sent_err is
\* the number of send attempts other than the heartbeat, files_ingested the
\* number of file rows committed, and events_new the number of events the
\* cycle built from newly seen files and sent a first time, which is the
\* number of event rows committed whenever no archive transaction fails.
C39_CountersAgreeAsBuilt ==
    /\ [][CountedStep =>
            /\ SendsCounted /\ FilesCounted /\ EventsBuiltCounted
            /\ (~(\E p \in Paths : TxFails(p)) => EventsCounted)]_vars
    /\ [](HeartbeatReports)

\* a heartbeat reports one new event and a failed send for a cycle whose
\* archive transaction failed: no row was committed
C39_Witness ==
    /\ pc = "done" /\ cfg.ReplayFrom = ZeroTime
    /\ \E p \in Paths : << "tx", p >> \in faults
    /\ FileRows(dbs) = 0 /\ EventRows(dbs) = 0
    /\ \E i \in DOMAIN calls :
          /\ calls[i].by = "sendDeadman"
          /\ calls[i].stats.EventsNew = 1
          /\ calls[i].stats.EventsSentErr = 1
          /\ calls[i].stats.FilesIngested = 0


\* ---------------------------------------------------------------------
\* The command line: LoadConfig, FilesConfig.UnmarshalYAML, the inputs
\* main builds for NewRunner, expandInputs, and the ingest of the file
\* the input covers.  Texts of the configuration file are sequences of
\* chunks, white space in chunks of its own.
\* ---------------------------------------------------------------------
MaxInputs == 1

\* the pattern that covers the paths of the input directory
Pattern == "general/*.warn"

RECURSIVE Concat(_)
Concat(v) == IF v = << >> THEN "" ELSE Head(v) \o Concat(Tail(v))

AlertTypeTexts == {<< >>, << "general" >>}
AlertDirTexts == {<< >>, << Pattern >>, << " ", Pattern >>}
ErrorDirTexts == {<< >>, << " " >>, << ErrorDir >>, << ErrorDir, " " >>}

\* a value of the mapping form: a scalar, or a mapping object
ScalarNodes == [kind : {"scalar"}, value : AlertDirTexts]
ObjectNodes == [kind : {"mapping"}, alert_dir : AlertDirTexts, error_dir : ErrorDirTexts]
MappingEntries == [key : AlertTypeTexts, value : ScalarNodes \cup ObjectNodes]
SequenceEntries ==
    [alert_dir : AlertDirTexts, alert_type : AlertTypeTexts, error_dir : ErrorDirTexts]

SeqsUpTo(S, n) == UNION {[1..k -> S] : k \in 0..n}

\* the node under `files:` of the configuration file
FilesNodes ==
    [kind : {"mapping"}, content : SeqsUpTo(MappingEntries, MaxInputs)]
        \cup [kind : {"sequence"}, content : SeqsUpTo(SequenceEntries, MaxInputs)]

InputFileConfig(alertDir, alertType, errorDir) ==
    [AlertDir |-> alertDir, AlertType |-> alertType, ErrorDir |-> errorDir]

\* the loop over the pairs of a mapping node, from pair i on
RECURSIVE UnmarshalMapping(_, _)
UnmarshalMapping(content, i) ==
    IF i > Len(content) THEN << >>
    ELSE LET alertType == TrimSpace(content[i].key)
             v == content[i].value
             rest == UnmarshalMapping(content, i + 1)
         IN  IF alertType = << >> THEN rest
             ELSE IF v.kind = "scalar"
             THEN IF TrimSpace(v.value) = << >> THEN rest
                  ELSE << InputFileConfig(TrimSpace(v.value), alertType, << >>) >> \o rest
             ELSE IF TrimSpace(v.alert_dir) = << >> THEN rest
                  ELSE << InputFileConfig(TrimSpace(v.alert_dir), alertType,
                                          TrimSpace(v.error_dir)) >> \o rest

\* FilesConfig.UnmarshalYAML: f.Items
UnmarshalYAML(value) ==
    IF value.kind = "mapping" THEN UnmarshalMapping(value.content, 1)
    ELSE [i \in DOMAIN value.content |->
            InputFileConfig(value.content[i].alert_dir, value.content[i].alert_type,
                            value.content[i].error_dir)]

\* spooler.InputSpec{Glob: f.AlertDir, AlertType: f.AlertType}
InputSpec(f) ==
    [Glob |-> Concat(f.AlertDir), AlertType |-> Concat(f.AlertType), ErrorDir |-> ""]

\* finalInputs of main
finalInputs(items) == [i \in DOMAIN items |-> InputSpec(items[i])]

\* expandGlobWithDoubleStar(in.Glob)
Matches(dir, glob) == IF glob = Pattern THEN expandGlob(dir, GlobOrder) ELSE << >>

\* Runner.expandInputs, from input i on; `seen` the paths already listed
RECURSIVE expandInputs(_, _, _, _)
expandInputs(dir, inputs, i, seen) ==
    IF i > Len(inputs) THEN << >>
    ELSE IF Blank(Txt(inputs[i].Glob)) THEN expandInputs(dir, inputs, i + 1, seen)
    ELSE LET new == SelectSeq(Matches(dir, inputs[i].Glob), LAMBDA m : m \notin seen)
             out == [j \in DOMAIN new |->
                        [Path |-> new[j], AlertType |-> inputs[i].AlertType,
                         ErrorDir |-> inputs[i].ErrorDir]]
         IN  out \o expandInputs(dir, inputs, i + 1,
                                 seen \cup {new[j] : j \in DOMAIN new})

\* the program is started with a configuration file and one file in the
\* input directory
MainInit ==
    /\ \E c \in {"OBJ", "BAD"} :
         fs = [p \in AllPaths |-> IF p = PathOf(1) THEN c ELSE NoFile]
    /\ errdir = << >>
    /\ clock = 1
    /\ given = CHOOSE c \in Configs : /\ c.DeleteAfterSend /\ ~c.Timeout
                                      /\ c.DeadmanToken = "" /\ c.ErrorDir = ""
    /\ cfg = NewRunnerCfg(given)
    /\ dbs = [k \in {PeriodKey(1)} |-> EmptyStore]
    /\ dbKey = PeriodKey(1)
    /\ pc = "idle"
    /\ todo = << >> /\ pending = << >> /\ fq = << >> /\ rdbs = << >> /\ revs = << >>
    /\ runErr = "" /\ ret = ""
    /\ stats = ZeroStats
    /\ calls = << >> /\ faults = {}
    /\ runs = 0 /\ writes = 0
    /\ arg \in [fn : {"main"}, files : FilesNodes]
    /\ res = NoArg

mainVars == << fs, errdir, dbs, stats, calls, faults >>

\* cfg, err := spooler.LoadConfig(configPath)
MainLoadConfig ==
    /\ arg.fn = "main" /\ res = NoArg
    /\ res' = [fn |-> "LoadConfig", items |-> UnmarshalYAML(arg.files)]
    /\ UNCHANGED << arg, restVars >>

\* finalInputs, and spooler.NewRunner(spooler.RunnerConfig{Inputs: finalInputs})
MainNewRunner ==
    /\ res.fn = "LoadConfig"
    /\ res' = [fn |-> "NewRunner", items |-> res.items, inputs |-> finalInputs(res.items)]
    /\ UNCHANGED << arg, restVars >>

\* items, err := r.expandInputs(r.cfg.Inputs)
MainExpandInputs ==
    /\ res.fn = "NewRunner"
    /\ res' = [fn |-> "expandInputs", items |-> res.items, inputs |-> res.inputs,
               todo |-> expandInputs(fs, res.inputs, 1, {})]
    /\ UNCHANGED << arg, restVars >>

\* _ = r.ingestFile(it.Path, it.AlertType, it.ErrorDir, deadline, stats)
MainIngest ==
    /\ res.fn = "expandInputs" /\ res.todo # << >>
    /\ LET it == Head(res.todo)
       IN  /\ \E ch \in IngestChoicesAt(World, it.Path, it.ErrorDir) :
                Apply(ingestFile(World, cfg, it.Path, it.ErrorDir, clock, ch))
           /\ res' = [fn |-> "ingestFile", items |-> res.items, inputs |-> res.inputs,
                      todo |-> Tail(res.todo), it |-> it, was |-> fs[it.Path]]
    /\ UNCHANGED << arg, writes, dbKey, clock, cfg, pc, todo, pending, fq, rdbs, revs,
                    runErr, ret, runs, given >>

MainNext == MainLoadConfig \/ MainNewRunner \/ MainExpandInputs \/ MainIngest

SpecMain == MainInit /\ [][MainNext]_vars

\* the entries of the configuration file whose input covers the path
CoveringEntries(items) == {i \in DOMAIN items : Concat(items[i].AlertDir) = Pattern}

\* the error directory the configuration file names for the input of the
\* file: that of the first entry that covers it
ConfiguredErrorDir(items) ==
    LET S == CoveringEntries(items)
    IN  IF S = {} THEN ""
        ELSE Concat(items[CHOOSE i \in S : \A j \in S : i <= j].ErrorDir)

MainIngested == res.fn = "ingestFile"

\* the file was undecodable and its ingest met no failure: the event and
\* the file row are committed
ArchivedUndecodable ==
    /\ MainIngested /\ res.was = "BAD"
    /\ faults = {}
    /\ Len(dbs[dbKey].files) = 1

\* C40: when the program is started from the command line, the error_dir
\* the configuration file names for an input is the error directory of
\* the files of that input in the Runner, and an undecodable file of the
\* input, once archived, is moved to that directory.
C40_ErrorDirReachesRunner ==
    (MainIngested /\ ~Blank(Txt(ConfiguredErrorDir(res.items)))) =>
        /\ res.it.ErrorDir = ConfiguredErrorDir(res.items)
        /\ ArchivedUndecodable =>
             /\ fs[res.it.Path] = NoFile
             /\ \E n \in DOMAIN errdir : errdir[n] = "BAD"

\* C40, the part the configuration file keeps: the items LoadConfig
\* returns carry the error_dir of the entries, trimmed in the mapping form
C40_LoadConfigKeepsErrorDir ==
    (res.fn = "LoadConfig" /\ Len(arg.files.content) = 1 /\ Len(res.items) = 1) =>
        LET e == arg.files.content[1]
        IN  IF arg.files.kind = "sequence" THEN res.items[1].ErrorDir = e.error_dir
            ELSE IF e.value.kind = "mapping"
            THEN res.items[1].ErrorDir = TrimSpace(e.value.error_dir)
            ELSE res.items[1].ErrorDir = << >>

\* C40: an undecodable file of an input with an error_dir was archived and
\* is still in the input directory
C40_LeftInPlace ==
    /\ ArchivedUndecodable
    /\ ConfiguredErrorDir(res.items) = ErrorDir
    /\ fs[res.it.Path] = "BAD"
    /\ errdir = << >>

====
